---- MODULE Spec2Model ----
(***************************************************************************)
(* Model of the Replay Cost Oracle (src/src/oracle.ts, src/src/types.ts,   *)
(* src/src/calculators/*.ts, cost-calculator and replay-labs client).      *)
(*                                                                         *)
(* Numbers.  A JavaScript number is modelled as an exact fraction          *)
(* [n |-> numerator, d |-> denominator] in lowest terms with d >= 0.       *)
(* d = 0 encodes the non-finite values: 1/0 is +Infinity, -1/0 is          *)
(* -Infinity and 0/0 is NaN, so that a division by zero yields what        *)
(* the JavaScript division yields.  IEEE rounding and the sign of zero are *)
(* not modelled.  [n |-> 0, d |-> -1] is the value `undefined`.            *)
(***************************************************************************)
EXTENDS Integers, Sequences, FiniteSets, TLC

VARIABLES
    calculators,       \* CostOracle.calculators: the venues with a registered calculator
    replayLabsClient,  \* CostOracle.replayLabsClient: "null" or "client"
    defaultMode,       \* CostOracle.defaultMode
    call,              \* the operation in flight (or the last one finished) and its arguments
    tasks,             \* per-leg progress of the operation in flight
    ret,               \* what the last finished operation returned or threw
    calcCalls,         \* calculator.estimate invocations made by the operation
    fetchCalls,        \* replayLabsClient.getOrderbook invocations made by the operation
    oracleInstance,    \* the module's singleton: 0 (null) or the CostOracle it refers to
    oracles,           \* the CostOracle objects constructed through the module's functions
    firstOracle        \* what the first getOracle call returned (0 before it)

\* the module-level state of oracle.ts
singleton == <<oracleInstance, oracles, firstOracle>>

vars == <<calculators, replayLabsClient, defaultMode, call, tasks, ret, calcCalls, fetchCalls,
          singleton>>

-----------------------------------------------------------------------------
(* JavaScript numbers *)

Abs(i) == IF i < 0 THEN -i ELSE i

Sign(i) == IF i < 0 THEN -1 ELSE IF i > 0 THEN 1 ELSE 0

RECURSIVE GCD(_, _)
GCD(a, b) == IF b = 0 THEN a ELSE GCD(b, a % b)

\* the fraction n/d (d >= 0) in lowest terms
Norm(n, d) ==
    IF d = 0 THEN [n |-> Sign(n), d |-> 0]
    ELSE LET g == GCD(Abs(n), d)
         IN  [n |-> Sign(n) * (Abs(n) \div g), d |-> d \div g]

Num(i) == [n |-> i, d |-> 1]
Frac(n, d) == Norm(n, d)

NaN == [n |-> 0, d |-> 0]
PosInf == [n |-> 1, d |-> 0]
NegInf == [n |-> -1, d |-> 0]
Undefined == [n |-> 0, d |-> -1]

Zero == Num(0)
One == Num(1)

IsNaN(a) == a = NaN
IsFinite(a) == a.d > 0

\* a + b
RAdd(a, b) ==
    IF IsNaN(a) \/ IsNaN(b) THEN NaN
    ELSE IF a.d = 0 /\ b.d = 0 THEN (IF a.n = b.n THEN a ELSE NaN)
    ELSE IF a.d = 0 THEN a
    ELSE IF b.d = 0 THEN b
    ELSE Norm(a.n * b.d + b.n * a.d, a.d * b.d)

RNeg(a) == [n |-> -a.n, d |-> a.d]

\* a - b
RSub(a, b) == RAdd(a, RNeg(b))

\* a * b  (0 * Infinity is NaN)
RMul(a, b) ==
    IF IsNaN(a) \/ IsNaN(b) THEN NaN
    ELSE Norm(a.n * b.n, a.d * b.d)

\* 1 / b  (1/0 is +Infinity, 1/Infinity is 0)
RRecip(b) ==
    IF IsNaN(b) THEN NaN
    ELSE IF b.n = 0 THEN PosInf
    ELSE IF b.d = 0 THEN Zero
    ELSE IF b.n < 0 THEN [n |-> -b.d, d |-> -b.n]
    ELSE [n |-> b.d, d |-> b.n]

\* a / b  (x/0 is +-Infinity, 0/0 is NaN)
RDiv(a, b) == RMul(a, RRecip(b))

\* a < b  (false when either is NaN)
RLt(a, b) ==
    IF IsNaN(a) \/ IsNaN(b) THEN FALSE
    ELSE IF a.d = 0 /\ b.d = 0 THEN a.n < b.n
    ELSE IF a.d = 0 THEN a.n < 0
    ELSE IF b.d = 0 THEN b.n > 0
    ELSE a.n * b.d < b.n * a.d

RGt(a, b) == RLt(b, a)

\* a <= b  (false when either is NaN)
RLe(a, b) == (~IsNaN(a) /\ ~IsNaN(b)) /\ (a = b \/ RLt(a, b))

RGe(a, b) == RLe(b, a)

\* a maximum that never applies its second argument
RMaxNoFloor(a, b) == a

\* Math.max(a, b)
RMax(a, b) == IF IsNaN(a) \/ IsNaN(b) THEN NaN ELSE IF RLt(a, b) THEN b ELSE a

\* Math.min(a, b)
RMin(a, b) == IF IsNaN(a) \/ IsNaN(b) THEN NaN ELSE IF RLt(b, a) THEN b ELSE a

\* Math.abs(a)
RAbs(a) == [n |-> Abs(a.n), d |-> a.d]

RECURSIVE ISqrtFrom(_, _)
ISqrtFrom(x, k) == IF (k + 1) * (k + 1) > x THEN k ELSE ISqrtFrom(x, k + 1)

\* Math.sqrt(a): sqrt(n/d) = sqrt(n*d)/d, exact whenever n/d is the square of
\* a fraction (the integer root is rounded down otherwise); NaN below zero.
RSqrt(a) ==
    IF IsNaN(a) \/ a.n < 0 THEN NaN
    ELSE IF a.d = 0 THEN PosInf
    ELSE Norm(ISqrtFrom(a.n * a.d, 0), a.d)

\* a ?? b
OrElse(a, b) == IF a = Undefined THEN b ELSE a

\* a || undefined  (0 and NaN are falsy)
OrUndefined(a) == IF a = Zero \/ IsNaN(a) THEN Undefined ELSE a

-----------------------------------------------------------------------------
(* Venues and the compatibility relation (src/src/types.ts) *)

Venues == {"KALSHI", "POLYMARKET", "HYPERLIQUID", "AERODROME"}

\* VENUE_INFO[v].category as the repository's tests state it
Category(v) ==
    CASE v \in {"KALSHI", "POLYMARKET"} -> "PREDICTION_MARKET"
      [] v = "HYPERLIQUID" -> "PERPS"
      [] OTHER -> "SPOT_DEX"

\* a relation that forgets the same-venue case
CanArbitrageAlways(venue1, venue2) == venue1 = "KALSHI" \/ venue1 # venue2

canArbitrage(venue1, venue2) == venue1 # venue2

-----------------------------------------------------------------------------
(* Calculators *)

OrderTypes == {"MARKET", "LIMIT", "undefined"}

NoBreakdown ==
    [exchange_fee |-> Undefined, gas_fee |-> Undefined, slippage_estimate |-> Undefined,
     settlement_fee |-> Undefined, rebate |-> Undefined]

\* a FeeEstimate with the given total and percentage
EstimateWith(venue, params, breakdown, confidence, assumptions, totalFee, feePct) ==
    [kind          |-> "FeeEstimate",
     venue         |-> venue,
     size_usd      |-> params.size_usd,
     total_fee_usd |-> totalFee,
     fee_pct       |-> feePct,
     breakdown     |-> [exchange_fee      |-> OrElse(breakdown.exchange_fee, Zero),
                        gas_fee           |-> OrUndefined(OrElse(breakdown.gas_fee, Zero)),
                        slippage_estimate |-> OrUndefined(OrElse(breakdown.slippage_estimate, Zero)),
                        settlement_fee    |-> OrUndefined(OrElse(breakdown.settlement_fee, Zero)),
                        rebate            |-> OrUndefined(OrElse(breakdown.rebate, Zero))],
     confidence    |-> confidence,
     assumptions   |-> assumptions]

\* the components of a breakdown added up, the rebate subtracted
GrossMinusRebate(breakdown) ==
    RSub(RAdd(RAdd(RAdd(OrElse(breakdown.exchange_fee, Zero), OrElse(breakdown.gas_fee, Zero)),
                   OrElse(breakdown.slippage_estimate, Zero)),
              OrElse(breakdown.settlement_fee, Zero)),
         OrElse(breakdown.rebate, Zero))

\* an estimate whose total is clamped at zero
createEstimateClamped(venue, params, breakdown, confidence, assumptions) ==
    EstimateWith(venue, params, breakdown, confidence, assumptions,
                 RMax(Zero, GrossMinusRebate(breakdown)),
                 IF RGt(params.size_usd, Zero)
                 THEN RMul(RDiv(RMax(Zero, GrossMinusRebate(breakdown)), params.size_usd),
                           Num(100))
                 ELSE Zero)

\* an estimate whose percentage divides by the size without a guard
createEstimateUnguarded(venue, params, breakdown, confidence, assumptions) ==
    EstimateWith(venue, params, breakdown, confidence, assumptions,
                 GrossMinusRebate(breakdown),
                 RMul(RDiv(GrossMinusRebate(breakdown), params.size_usd), Num(100)))

\* BaseFeeCalculator.createEstimate
createEstimate(venue, params, breakdown, confidence, assumptions) ==
    LET exchangeFee == OrElse(breakdown.exchange_fee, Zero)
        gasFee      == OrElse(breakdown.gas_fee, Zero)
        slippage    == OrElse(breakdown.slippage_estimate, Zero)
        settlement  == OrElse(breakdown.settlement_fee, Zero)
        rebate      == OrElse(breakdown.rebate, Zero)
        totalFee    == RSub(RAdd(RAdd(RAdd(exchangeFee, gasFee), slippage), settlement), rebate)
        feePct      == IF RGt(params.size_usd, Zero)
                       THEN RMul(RDiv(totalFee, params.size_usd), Num(100))
                       ELSE Zero
    IN  [kind          |-> "FeeEstimate",
         venue         |-> venue,
         size_usd      |-> params.size_usd,
         total_fee_usd |-> totalFee,
         fee_pct       |-> feePct,
         breakdown     |-> [exchange_fee      |-> exchangeFee,
                            gas_fee           |-> OrUndefined(gasFee),
                            slippage_estimate |-> OrUndefined(slippage),
                            settlement_fee    |-> OrUndefined(settlement),
                            rebate            |-> OrUndefined(rebate)],
         confidence    |-> confidence,
         assumptions   |-> assumptions]

\* KalshiFeeCalculator.TAKER_COEFFICIENT, MAKER_COEFFICIENT_DEFAULT
TAKER_COEFFICIENT == Frac(7, 100)
MAKER_COEFFICIENT_DEFAULT == Zero

\* a fee charged on the notional instead of on the variance term
calculateFeeOnNotional(numContracts, price, coefficient) ==
    RMul(RMul(coefficient, numContracts), price)

\* KalshiFeeCalculator.calculateFee
calculateFee(numContracts, price, coefficient) ==
    LET varianceTerm == RMul(price, RSub(One, price))
    IN  RMul(RMul(coefficient, numContracts), varianceTerm)

\* a conversion without the guard on the price
usdToContractsUnguarded(sizeUsd, price) == RDiv(sizeUsd, price)

\* KalshiFeeCalculator.usdToContracts
usdToContracts(sizeUsd, price) ==
    IF RLe(price, Zero) \/ RGe(price, One) THEN Zero ELSE RDiv(sizeUsd, price)

\* KalshiFeeCalculator.estimate
KalshiEstimate(params) ==
    LET price         == OrElse(params.price, Frac(1, 2))
        sizeUsd       == params.size_usd
        numContracts  == usdToContracts(sizeUsd, price)
        isMarketOrder == params.order_type = "MARKET"
        coefficient   == IF isMarketOrder THEN TAKER_COEFFICIENT ELSE MAKER_COEFFICIENT_DEFAULT
        exchangeFee   == calculateFee(numContracts, price, coefficient)
        assumptions   == << IF isMarketOrder THEN "Taker order" ELSE "Maker order",
                            "Formula: coefficient x contracts x P x (1-P)",
                            "Px(1-P) (max 0.25 at 50%)",
                            "Fee" >>
                         \o (IF isMarketOrder THEN << >>
                             ELSE << "Note: Maker fee is 0 for most markets" >>)
    IN  createEstimate("KALSHI", params,
                       [NoBreakdown EXCEPT !.exchange_fee = exchangeFee],
                       "high", assumptions)

\* schedules/polymarket.json: base_fees, min_fee_usd, gas_estimate.avg_cost_usd,
\* maker_rebates.enabled
PolymarketTakerFeeBps == 1
PolymarketMakerFeeBps == 0
PolymarketMinFeeUsd == Frac(1, 10000)
PolymarketGasUsd == Frac(1, 100)
PolymarketMakerRebatesEnabled == TRUE

\* PolymarketFeeCalculator.estimate (requests that carry no token_id, so that
\* isShortDurationCrypto is false)
PolymarketEstimate(params) ==
    LET sizeUsd       == params.size_usd
        isMarketOrder == params.order_type = "MARKET"
        feeRateBps    == IF isMarketOrder THEN PolymarketTakerFeeBps ELSE PolymarketMakerFeeBps
        assumptions0  == IF isMarketOrder THEN << "Taker order (market order)" >>
                         ELSE << "Maker order (limit order) -> 0% fee" >>
                              \o (IF PolymarketMakerRebatesEnabled
                                  THEN << "Eligible for maker rebates program" >> ELSE << >>)
        feeRate       == RDiv(Num(feeRateBps), Num(10000))
        exchangeFee   == RMul(sizeUsd, feeRate)
        assumptions   == assumptions0 \o << "Gas estimate (Polygon)", "Fee rate" >>
    IN  createEstimate("POLYMARKET", params,
                       [NoBreakdown EXCEPT !.exchange_fee = RMax(exchangeFee, PolymarketMinFeeUsd),
                                           !.gas_fee = PolymarketGasUsd],
                       "high", assumptions)

\* schedules/hyperliquid.json: the first volume tier (no user context)
HyperliquidTakerFeeBps == Frac(35, 10)
HyperliquidMakerFeeBps == Frac(1, 1)

\* schedules/hyperliquid.json as the tests pin it: the first tier at volume 0,
\* the third tier (2.5 bps taker) holding at $10M, a 10% discount at 10000 HYPE
\* (the file itself is configuration; the other thresholds and rates stand for
\* whatever it holds, and HyperliquidSchedules adds a table of another shape)
HyperliquidSchedule ==
    [volume_tiers |->
        << [tier |-> 1, min_volume_14d_usd |-> Num(0),
            maker_fee_bps |-> HyperliquidMakerFeeBps, taker_fee_bps |-> HyperliquidTakerFeeBps],
           [tier |-> 2, min_volume_14d_usd |-> Num(1000000),
            maker_fee_bps |-> Frac(1, 2), taker_fee_bps |-> Num(3)],
           [tier |-> 3, min_volume_14d_usd |-> Num(10000000),
            maker_fee_bps |-> Zero, taker_fee_bps |-> Frac(25, 10)],
           [tier |-> 4, min_volume_14d_usd |-> Num(100000000),
            maker_fee_bps |-> Zero, taker_fee_bps |-> Num(2)] >>,
     staking_tiers |->
        << [min_hype_staked |-> Num(10000), discount_pct |-> Num(10)],
           [min_hype_staked |-> Num(100000), discount_pct |-> Num(20)] >>]

\* new HyperliquidFeeCalculator(): no user context
NoUserContext == [present |-> FALSE, volume_14d_usd |-> Undefined, hype_staked |-> Undefined]

RECURSIVE VolumeTierFrom(_, _, _)
\* the loop of getVolumeTier from index i down, then tiers[0]
VolumeTierFrom(tiers, volume14d, i) ==
    IF i < 1 THEN tiers[1]
    ELSE IF RGe(volume14d, tiers[i].min_volume_14d_usd) THEN tiers[i]
    ELSE VolumeTierFrom(tiers, volume14d, i - 1)

\* a tier lookup that ignores the volume
getVolumeTierBase(tiers, volume14d) == tiers[1]

\* HyperliquidFeeCalculator.getVolumeTier
getVolumeTier(tiers, volume14d) == VolumeTierFrom(tiers, volume14d, Len(tiers))

RECURSIVE StakingDiscountFrom(_, _, _)
\* the loop of getStakingDiscount from index i down, then 0
StakingDiscountFrom(stakingTiers, hypeStaked, i) ==
    IF i < 1 THEN Zero
    ELSE IF RGe(hypeStaked, stakingTiers[i].min_hype_staked)
         THEN RDiv(stakingTiers[i].discount_pct, Num(100))
    ELSE StakingDiscountFrom(stakingTiers, hypeStaked, i - 1)

\* HyperliquidFeeCalculator.getStakingDiscount
getStakingDiscount(stakingTiers, hypeStaked) ==
    StakingDiscountFrom(stakingTiers, hypeStaked, Len(stakingTiers))

\* HyperliquidFeeCalculator.estimate once the tier and the discount are known
HyperliquidFee(userContext, params, tier, stakingDiscount) ==
    LET sizeUsd             == params.size_usd
        isMarketOrder       == params.order_type = "MARKET"
        baseFeeRateBps      == IF isMarketOrder THEN tier.taker_fee_bps ELSE tier.maker_fee_bps
        effectiveFeeRateBps == RMul(baseFeeRateBps, RSub(One, stakingDiscount))
        feeRate             == RDiv(effectiveFeeRateBps, Num(10000))
        exchangeFee         == RMul(sizeUsd, feeRate)
        assumptions         == << IF isMarketOrder THEN "Taker order" ELSE "Maker order",
                                  "Volume tier", "Base fee" >>
                               \o (IF RGt(stakingDiscount, Zero)
                                   THEN << "Staking discount" >> ELSE << >>)
                               \o << "Effective fee" >>
                               \o (IF userContext.present THEN << >>
                                   ELSE << "Note: Using default tier (no user context provided)" >>)
    IN  createEstimate("HYPERLIQUID", params,
                       [NoBreakdown EXCEPT !.exchange_fee = exchangeFee],
                       IF userContext.present THEN "high" ELSE "medium", assumptions)

\* HyperliquidFeeCalculator.estimate of a calculator with the given schedule
\* and user context
HyperliquidEstimateFor(schedule, userContext, params) ==
    HyperliquidFee(userContext, params,
                   getVolumeTier(schedule.volume_tiers,
                                 IF userContext.present
                                 THEN OrElse(userContext.volume_14d_usd, Zero) ELSE Zero),
                   getStakingDiscount(schedule.staking_tiers,
                                      IF userContext.present
                                      THEN OrElse(userContext.hype_staked, Zero) ELSE Zero))

\* HyperliquidFeeCalculator.estimate of the calculator the oracle registers
\* (built without user context)
HyperliquidEstimate(params) ==
    HyperliquidEstimateFor(HyperliquidSchedule, NoUserContext, params)

\* schedules/aerodrome.json: pool_fees.volatile_pools.fee_bps, gas_estimate.avg_cost_usd
AerodromeVolatileFeeBps == 30
AerodromeGasUsd == Frac(1, 100)

\* AerodromeFeeCalculator.estimate
AerodromeEstimate(params) ==
    LET sizeUsd     == params.size_usd
        poolFeeRate == RDiv(Num(AerodromeVolatileFeeBps), Num(10000))
        exchangeFee == RMul(sizeUsd, poolFeeRate)
        gasFee      == AerodromeGasUsd
        assumptions == << "Pool type: volatile (default)", "Pool fee", "Gas estimate (Base L2)",
                          "Note: Use /api/aerodrome/quote for accurate slippage estimate" >>
    IN  createEstimate("AERODROME", params,
                       [NoBreakdown EXCEPT !.exchange_fee = exchangeFee, !.gas_fee = gasFee],
                       "medium", assumptions)

\* calculator.estimate(params) of the calculator registered for a venue
CalculatorEstimate(venue, params) ==
    CASE venue = "KALSHI" -> KalshiEstimate(params)
      [] venue = "POLYMARKET" -> PolymarketEstimate(params)
      [] venue = "HYPERLIQUID" -> HyperliquidEstimate(params)
      [] OTHER -> AerodromeEstimate(params)

-----------------------------------------------------------------------------
(* Orderbook normalizer (client/replay-labs) *)

\* parseFloat on the decimal strings the modelled payloads carry
parseFloat(s) ==
    CASE s = "0.38" -> Frac(38, 100)
      [] s = "0.40" -> Frac(40, 100)
      [] s = "0.50" -> Frac(50, 100)
      [] s = "0.55" -> Frac(55, 100)
      [] s = "0.60" -> Frac(60, 100)
      [] s = "500"  -> Num(500)
      [] s = "1000" -> Num(1000)
      [] s = "5000" -> Num(5000)
      [] OTHER -> NaN

\* (a, b) => b.price - a.price   and   (a, b) => a.price - b.price
Descending(a, b) == RSub(b.price, a.price)
Ascending(a, b) == RSub(a.price, b.price)

\* cmp(a, b) < 0 for the comparator named order
Before(order, a, b) ==
    IF order = "descending" THEN RLt(Descending(a, b), Zero)
    ELSE RLt(Ascending(a, b), Zero)

\* a.sort(cmp) as a stable insertion sort
RECURSIVE InsertSorted(_, _, _)
InsertSorted(x, s, order) ==
    IF s = << >> THEN << x >>
    ELSE IF Before(order, x, Head(s)) THEN << x >> \o s
    ELSE << Head(s) >> \o InsertSorted(x, Tail(s), order)

RECURSIVE SortBy(_, _)
SortBy(s, order) ==
    IF s = << >> THEN << >>
    ELSE InsertSorted(s[Len(s)], SortBy(SubSeq(s, 1, Len(s) - 1), order), order)

RECURSIVE SumNotional(_)
SumNotional(levels) ==
    IF levels = << >> THEN Zero
    ELSE RAdd(SumNotional(SubSeq(levels, 1, Len(levels) - 1)),
              RMul(levels[Len(levels)].price, levels[Len(levels)].size))

\* the snapshot both parsers build from their sorted sides
Snapshot(venue, bids, asks) ==
    LET bestBid   == IF Len(bids) > 0 THEN bids[1].price ELSE Zero
        bestAsk   == IF Len(asks) > 0 THEN asks[1].price ELSE One
        midPrice  == RDiv(RAdd(bestBid, bestAsk), Num(2))
        spread    == RSub(bestAsk, bestBid)
        spreadBps == IF RGt(midPrice, Zero)
                     THEN RMul(RDiv(spread, midPrice), Num(10000)) ELSE Zero
    IN  [venue         |-> venue,
         best_bid      |-> bestBid,
         best_ask      |-> bestAsk,
         mid_price     |-> midPrice,
         spread        |-> spread,
         spread_bps    |-> spreadBps,
         bid_depth_usd |-> SumNotional(bids),
         ask_depth_usd |-> SumNotional(asks),
         levels        |-> bids \o asks]

\* ReplayLabsClient.parseKalshiOrderbook: the yes side gives the bids, the no
\* side inverted (1 - no price) gives the asks
parseKalshiOrderbook(response) ==
    LET bids == SortBy([i \in 1..Len(response.yes_dollars) |->
                          [price |-> parseFloat(response.yes_dollars[i][1]),
                           size  |-> response.yes_dollars[i][2],
                           side  |-> "BID"]], "descending")
        asks == SortBy([i \in 1..Len(response.no_dollars) |->
                          [price |-> RSub(One, parseFloat(response.no_dollars[i][1])),
                           size  |-> response.no_dollars[i][2],
                           side  |-> "ASK"]], "ascending")
    IN  Snapshot("KALSHI", bids, asks)

\* ReplayLabsClient.parsePolymarketOrderbook
parsePolymarketOrderbook(response) ==
    LET bids == SortBy([i \in 1..Len(response.bids) |->
                          [price |-> parseFloat(response.bids[i].price),
                           size  |-> parseFloat(response.bids[i].size),
                           side  |-> "BID"]], "descending")
        asks == SortBy([i \in 1..Len(response.asks) |->
                          [price |-> parseFloat(response.asks[i].price),
                           size  |-> parseFloat(response.asks[i].size),
                           side  |-> "ASK"]], "ascending")
    IN  Snapshot("POLYMARKET", bids, asks)

\* responses of the remote service to /api/kalshi/markets/<ticker>/orderbook
KalshiResponses ==
    { [yes_dollars |-> << <<"0.38", Num(1000)>>, <<"0.40", Num(500)>> >>,
       no_dollars  |-> << <<"0.50", Num(1000)>>, <<"0.55", Num(1000)>> >>],
      [yes_dollars |-> << <<"0.40", Num(5000)>> >>,
       no_dollars  |-> << >>],
      [yes_dollars |-> << >>,
       no_dollars  |-> << >>] }

\* responses of the remote service to /api/polymarket/clob/book
PolymarketResponses ==
    { [bids |-> << [price |-> "0.40", size |-> "1000"], [price |-> "0.50", size |-> "500"] >>,
       asks |-> << [price |-> "0.60", size |-> "500"], [price |-> "0.55", size |-> "1000"] >>],
      [bids |-> << >>,
       asks |-> << [price |-> "0.55", size |-> "5000"] >>] }

\* ReplayLabsClient.getOrderbook: the snapshots a fetch can resolve with; a
\* venue without orderbook support has none (the call throws), and any fetch
\* can also reject (network or API error)
OrderbookOutcomes(venue) ==
    CASE venue = "KALSHI" -> { parseKalshiOrderbook(r) : r \in KalshiResponses }
      [] venue = "POLYMARKET" -> { parsePolymarketOrderbook(r) : r \in PolymarketResponses }
      [] OTHER -> { }

-----------------------------------------------------------------------------
(* Cost calculator (calculators/cost-calculator) *)

FilterSide(levels, side) == SelectSeq(levels, LAMBDA l : l.side = side)

\* the loop of calculateSlippage over levels[i..], acc the loop's variables
RECURSIVE WalkLevels(_, _, _)
WalkLevels(levels, i, acc) ==
    IF i > Len(levels) \/ RLe(acc.remainingUsd, Zero) THEN acc
    ELSE LET level         == levels[i]
             levelValueUsd == RMul(level.price, level.size)
             fillUsd       == RMin(acc.remainingUsd, levelValueUsd)
             fillContracts == RDiv(fillUsd, level.price)
         IN  WalkLevels(levels, i + 1,
                 [remainingUsd     |-> RSub(acc.remainingUsd, fillUsd),
                  totalContracts   |-> RAdd(acc.totalContracts, fillContracts),
                  weightedPriceSum |-> RAdd(acc.weightedPriceSum,
                                            RMul(level.price, fillContracts)),
                  levelsConsumed   |-> acc.levelsConsumed + 1])

\* the arrays had the snapshot's own array been sorted before filtering
LevelArraysSortingBook(orderbook, side) ==
    IF side = "BUY"
    THEN [book   |-> SortBy(orderbook.levels, "ascending"),
          levels |-> FilterSide(SortBy(orderbook.levels, "ascending"), "ASK")]
    ELSE [book   |-> SortBy(orderbook.levels, "descending"),
          levels |-> FilterSide(SortBy(orderbook.levels, "descending"), "BID")]

\* the arrays after orderbook.levels.filter(...).sort(...): filter allocates a
\* new array and sort reorders that array in place; book is the snapshot's own
\* array, levels the one the walk uses
LevelArrays(orderbook, side) ==
    IF side = "BUY"
    THEN [book   |-> orderbook.levels,
          levels |-> SortBy(FilterSide(orderbook.levels, "ASK"), "ascending")]
    ELSE [book   |-> orderbook.levels,
          levels |-> SortBy(FilterSide(orderbook.levels, "BID"), "descending")]

\* the relevant side of the book, best price first
SideLevels(orderbook, side) == LevelArrays(orderbook, side).levels

\* the result of calculateSlippage from the totals of the fill
SlippageResult(orderbook, side, bestPrice, levelsConsumed, totalContracts, effectivePrice) ==
    LET slippagePerContract == RAbs(RSub(effectivePrice, bestPrice))
        slippageUsd == RMul(slippagePerContract, totalContracts)
        priceImpactPct == IF RGt(bestPrice, Zero)
                          THEN RMul(RDiv(slippagePerContract, bestPrice), Num(100))
                          ELSE Zero
        midPrice == orderbook.mid_price
        spreadCostPerContract == IF side = "BUY" THEN RSub(bestPrice, midPrice)
                                 ELSE RSub(midPrice, bestPrice)
        spreadCostUsd == RMax(Zero, RMul(spreadCostPerContract, totalContracts))
    IN  [spread_cost_usd  |-> spreadCostUsd,
         slippage_usd     |-> slippageUsd,
         effective_price  |-> effectivePrice,
         price_impact_pct |-> priceImpactPct,
         levels_consumed  |-> levelsConsumed]

\* the effective price of the fill
SlippageTotals(orderbook, side, bestPrice, levelsConsumed, weightedPriceSum, totalContracts) ==
    SlippageResult(orderbook, side, bestPrice, levelsConsumed, totalContracts,
                   IF RGt(totalContracts, Zero)
                   THEN RDiv(weightedPriceSum, totalContracts) ELSE bestPrice)

\* a walk that leaves out what the book could not fill
SlippageFilledFromBookOnly(orderbook, side, bestPrice, lastPrice, walked) ==
    SlippageTotals(orderbook, side, bestPrice, walked.levelsConsumed,
                   walked.weightedPriceSum, walked.totalContracts)

\* after the loop: what the book could not fill is filled at the last level's price
SlippageFilled(orderbook, side, bestPrice, lastPrice, walked) ==
    LET unfilled == RGt(walked.remainingUsd, Zero)
        remainingContracts == RDiv(walked.remainingUsd, lastPrice)
    IN  SlippageTotals(orderbook, side, bestPrice, walked.levelsConsumed,
                       IF unfilled
                       THEN RAdd(walked.weightedPriceSum, RMul(lastPrice, remainingContracts))
                       ELSE walked.weightedPriceSum,
                       IF unfilled
                       THEN RAdd(walked.totalContracts, remainingContracts)
                       ELSE walked.totalContracts)

\* calculateSlippage on the sorted levels of the relevant side
SlippageOver(orderbook, sizeUsd, side, levels) ==
    IF Len(levels) = 0
    THEN [spread_cost_usd  |-> Zero,
          slippage_usd     |-> Zero,
          effective_price  |-> IF side = "BUY" THEN orderbook.best_ask ELSE orderbook.best_bid,
          price_impact_pct |-> Zero,
          levels_consumed  |-> 0]
    ELSE SlippageFilled(orderbook, side, levels[1].price, levels[Len(levels)].price,
                        WalkLevels(levels, 1,
                                   [remainingUsd |-> sizeUsd, totalContracts |-> Zero,
                                    weightedPriceSum |-> Zero, levelsConsumed |-> 0]))

\* calculateSlippage
calculateSlippage(orderbook, sizeUsd, side) ==
    SlippageOver(orderbook, sizeUsd, side, SideLevels(orderbook, side))

\* one call of calculateSlippage on the arrays it leaves: the value returned
\* and the snapshot as the caller sees it afterwards
SlippageCallOver(orderbook, sizeUsd, side, arrays) ==
    [result    |-> SlippageOver(orderbook, sizeUsd, side, arrays.levels),
     orderbook |-> [orderbook EXCEPT !.levels = arrays.book]]

\* one call of calculateSlippage, with its effect on the snapshot passed
SlippageCall(orderbook, sizeUsd, side) ==
    SlippageCallOver(orderbook, sizeUsd, side, LevelArrays(orderbook, side))

\* estimateSpreadCost: typicalSpreads[venue] ?? 0.02, halved, times size / price
\* (the callers pass a price: the default 0.5 never applies)
estimateSpreadCost(venue, sizeUsd, price) ==
    LET spread     == CASE venue = "KALSHI" -> Frac(2, 100)
                        [] venue = "POLYMARKET" -> Frac(1, 100)
                        [] OTHER -> Frac(2, 100)
        halfSpread == RDiv(spread, Num(2))
        contracts  == RDiv(sizeUsd, price)
    IN  RMul(halfSpread, contracts)

\* estimateSlippage: size x baseSlippagePct[venue] x sqrt(size / 1000)
estimateSlippage(venue, sizeUsd, price) ==
    LET typicalSize    == Num(1000)
        baseSlippage   == CASE venue = "KALSHI" -> Frac(1, 1000)
                            [] venue = "POLYMARKET" -> Frac(5, 10000)
                            [] OTHER -> Frac(1, 1000)
        sizeMultiplier == RSqrt(RDiv(sizeUsd, typicalSize))
    IN  RMul(RMul(sizeUsd, baseSlippage), sizeMultiplier)

-----------------------------------------------------------------------------
(* Inputs *)

MaxLegs == 2

\* the longest leg list of the analyses made without live data
MaxFeeLegs == 3

Modes == {"PUBLIC_SCHEDULE", "LIVE_ORDERBOOK", "ACCOUNT_SPECIFIC"}

Sizes == {Num(-1000), Num(0), Num(1000), Num(10000)}
Prices == {Undefined, Num(0), Frac(1, 10), Frac(1, 2), Frac(9, 10), Num(1)}
MarketIds == {"undefined", "MKT"}

\* FeeEstimateParams of the requests made to estimate
FeeParams ==
    [venue : Venues, size_usd : Sizes, order_type : OrderTypes, price : Prices,
     market_id : {"undefined"}]

\* CostEstimateParams of the requests made to estimateCost
CostParams ==
    [venue : Venues, size_usd : {Num(0), Num(1000), Num(4000)}, order_type : {"MARKET", "undefined"},
     price : {Undefined, Num(0), Frac(1, 2)}, market_id : MarketIds,
     side : {"undefined", "SELL"}, mode : {"undefined", "PUBLIC_SCHEDULE", "LIVE_ORDERBOOK"}]

\* TradeLeg values the arbitrage requests are built from
LegPool ==
    { [venue |-> "KALSHI", direction |-> "BUY", size_usd |-> Num(1000),
       price |-> Frac(1, 2), market_id |-> "MKT", order_type |-> "undefined"],
      [venue |-> "KALSHI", direction |-> "SELL", size_usd |-> Num(4000),
       price |-> Frac(1, 10), market_id |-> "undefined", order_type |-> "LIMIT"],
      [venue |-> "POLYMARKET", direction |-> "SELL", size_usd |-> Num(1000),
       price |-> Frac(1, 2), market_id |-> "MKT", order_type |-> "MARKET"],
      [venue |-> "HYPERLIQUID", direction |-> "SELL", size_usd |-> Num(1000),
       price |-> Undefined, market_id |-> "undefined", order_type |-> "undefined"],
      [venue |-> "AERODROME", direction |-> "BUY", size_usd |-> Num(1000),
       price |-> Undefined, market_id |-> "MKT", order_type |-> "MARKET"] }

LegLists == UNION { [1..n -> LegPool] : n \in 0..MaxLegs }

\* grossProfit and minProfitThresholdPct of the arbitrage requests (an
\* undefined threshold is the default)
ProfitTerms ==
    { [grossProfit |-> Num(0),  threshold |-> Undefined],
      [grossProfit |-> Num(40), threshold |-> Undefined],
      [grossProfit |-> Num(50), threshold |-> Num(2)] }

\* CostOracleConfig values: replayLabsApiKey and defaultMode, each optional
Configs ==
    [replayLabsApiKey : {"undefined", "", "key"}, defaultMode : Modes \cup {"undefined"}]

-----------------------------------------------------------------------------
(* CostOracle (src/src/oracle.ts) *)

\* a constructor that leaves a configured defaultMode alone
NewCostOracleKeepingMode(config) ==
    [calculators      |-> << "KALSHI", "POLYMARKET" >>,
     replayLabsClient |-> IF config.replayLabsApiKey \in {"undefined", ""}
                          THEN "null" ELSE "client",
     defaultMode      |-> IF config.defaultMode = "undefined" THEN "PUBLIC_SCHEDULE"
                          ELSE config.defaultMode]

\* new CostOracle(config): the fields of the object constructed (an absent
\* config is the config with both fields undefined)
NewCostOracle(config) ==
    [calculators      |-> << "KALSHI", "POLYMARKET" >>,
     replayLabsClient |-> IF config.replayLabsApiKey \in {"undefined", ""}
                          THEN "null" ELSE "client",
     defaultMode      |-> IF config.replayLabsApiKey \notin {"undefined", ""}
                          THEN "LIVE_ORDERBOOK"
                          ELSE IF config.defaultMode = "undefined" THEN "PUBLIC_SCHEDULE"
                          ELSE config.defaultMode]

NoSnapshot == [venue |-> "undefined"]
NoEstimate == [kind |-> "none"]
Pending == [kind |-> "pending"]

ErrNoCalculator(venue) ==
    [kind |-> "error", message |-> "No calculator registered for venue", venue |-> venue]

ErrIncompatible(v1, v2) ==
    [kind |-> "error", message |-> "Cross-venue arbitrage requires different venues",
     v1 |-> v1, v2 |-> v2]

Registered(venue) == \E i \in 1..Len(calculators) : calculators[i] = venue

\* an estimate that falls through to some calculator when none is registered
OracleEstimateUnchecked(venue, params) == CalculatorEstimate(venue, params)

\* CostOracle.estimate: the value the returned promise settles with
OracleEstimate(venue, params) ==
    IF ~Registered(venue) THEN ErrNoCalculator(venue)
    ELSE CalculatorEstimate(venue, params)

\* the TradingCost estimateCost returns, from the implicit costs of its branch
CostRecord(t, branch, orderbook, spreadCost, slippage) ==
    LET params       == t.params
        exchangeFee  == t.est.breakdown.exchange_fee
        gasFee       == OrElse(t.est.breakdown.gas_fee, Zero)
        explicitCost == RAdd(exchangeFee, gasFee)
        confidence   == CASE branch = "live" -> "high"
                          [] branch = "failed" -> "low"
                          [] OTHER -> "medium"
        assumptions  == t.est.assumptions \o
                        (CASE branch = "live" ->
                                << "Live orderbook: spread", "Levels consumed", "Price impact" >>
                           [] branch = "failed" ->
                                << "Orderbook fetch failed, using estimates" >>
                           [] OTHER ->
                                << "Spread/slippage estimated (no live orderbook)" >>)
        implicitCost == RAdd(spreadCost, slippage)
        totalCost    == RAdd(explicitCost, implicitCost)
        totalCostPct == IF RGt(params.size_usd, Zero)
                        THEN RMul(RDiv(totalCost, params.size_usd), Num(100)) ELSE Zero
    IN  [kind              |-> "TradingCost",
         venue             |-> params.venue,
         size_usd          |-> params.size_usd,
         side              |-> t.side,
         exchange_fee_usd  |-> exchangeFee,
         gas_fee_usd       |-> gasFee,
         explicit_cost_usd |-> explicitCost,
         spread_cost_usd   |-> spreadCost,
         slippage_usd      |-> slippage,
         implicit_cost_usd |-> implicitCost,
         total_cost_usd    |-> totalCost,
         total_cost_pct    |-> totalCostPct,
         breakdown         |-> [exchange_fee |-> exchangeFee,
                                gas_fee      |-> gasFee,
                                spread_cost  |-> spreadCost,
                                slippage     |-> slippage,
                                best_bid     |-> IF branch = "live" THEN orderbook.best_bid
                                                 ELSE Undefined,
                                best_ask     |-> IF branch = "live" THEN orderbook.best_ask
                                                 ELSE Undefined,
                                mid_price    |-> IF branch = "live" THEN orderbook.mid_price
                                                 ELSE Undefined,
                                spread_bps   |-> IF branch = "live" THEN orderbook.spread_bps
                                                 ELSE Undefined],
         confidence        |-> confidence,
         mode              |-> t.mode,
         assumptions       |-> assumptions,
         orderbook_snapshot |-> IF branch = "live" THEN orderbook ELSE NoSnapshot]

\* the live block of estimateCost, from the result of calculateSlippage
CostLive(t, orderbook, slippageResult) ==
    CostRecord(t, "live", orderbook, slippageResult.spread_cost_usd,
               slippageResult.slippage_usd)

\* an estimateCost whose catch block behaves like its else block
CostResultUncaught(t, branch, orderbook) ==
    IF branch = "live"
    THEN CostLive(t, orderbook, calculateSlippage(orderbook, t.params.size_usd, t.side))
    ELSE CostRecord(t, "nolive", orderbook,
                    estimateSpreadCost(t.params.venue, t.params.size_usd, t.price),
                    estimateSlippage(t.params.venue, t.params.size_usd, t.price))

\* CostOracle.estimateCost from the branch taken after the fee estimate:
\* "live" (fetch resolved with orderbook), "failed" (fetch rejected, the catch
\* block), "nolive" (the else block).  t is the task: its params, the mode,
\* side and price read on entry and the fee estimate.
CostResult(t, branch, orderbook) ==
    IF branch = "live"
    THEN CostLive(t, orderbook, calculateSlippage(orderbook, t.params.size_usd, t.side))
    ELSE CostRecord(t, branch, orderbook,
                    estimateSpreadCost(t.params.venue, t.params.size_usd, t.price),
                    estimateSlippage(t.params.venue, t.params.size_usd, t.price))

\* an estimateCost that carries on after a fee estimate that threw
CostTaskIgnoringFailure(params, mode, est) ==
    [pc     |-> "estimated",
     kind   |-> "cost",
     params |-> params,
     mode   |-> IF params.mode = "undefined" THEN mode ELSE params.mode,
     side   |-> IF params.side = "undefined" THEN "BUY" ELSE params.side,
     price  |-> OrElse(params.price, Frac(1, 2)),
     est    |-> IF est.kind = "error" THEN CalculatorEstimate(params.venue, params) ELSE est,
     fetch  |-> "none",
     at     |-> 0,
     out    |-> Pending]

\* the task of an estimateCost call that awaits the fee estimate est
CostTask(params, mode, est) ==
    [pc     |-> IF est.kind = "error" THEN "failed" ELSE "estimated",
     kind   |-> "cost",
     params |-> params,
     mode   |-> IF params.mode = "undefined" THEN mode ELSE params.mode,
     side   |-> IF params.side = "undefined" THEN "BUY" ELSE params.side,
     price  |-> OrElse(params.price, Frac(1, 2)),
     est    |-> est,
     fetch  |-> "none",
     at     |-> 0,
     out    |-> IF est.kind = "error" THEN est ELSE Pending]

\* the part of estimateCost that runs on the call: mode, side and price are
\* read and this.estimate(params) is invoked; the task then awaits it
StartCost(params) == CostTask(params, defaultMode, OracleEstimate(params.venue, params))

\* the task of an estimate call: it settles with est
FeeTask(params, est) ==
    [pc     |-> IF est.kind = "error" THEN "failed" ELSE "done",
     kind   |-> "fee",
     params |-> params,
     mode   |-> "undefined",
     side   |-> "undefined",
     price  |-> Undefined,
     est    |-> est,
     fetch  |-> "none",
     at     |-> 0,
     out    |-> est]

\* a call of this.estimate(params) as a task
StartFee(params) == FeeTask(params, OracleEstimate(params.venue, params))

Settled(t) == t.pc \in {"done", "failed"}

\* the position in time at which the next task to settle after an await does
\* so (at is 0 for a task that settled within the call that started it)
NextCompletion == 1 + Cardinality({ j \in 1..Len(tasks) : tasks[j].at > 0 })

\* values collected in the order the tasks settled
PromiseAllInCompletionOrder(ts) ==
    [k \in 1..Len(ts) |->
        ts[CHOOSE i \in 1..Len(ts) :
               k = 1 + Cardinality({ j \in 1..Len(ts) :
                                       \/ ts[j].at < ts[i].at
                                       \/ ts[j].at = ts[i].at /\ j < i })].out]

\* Promise.all once every task has fulfilled: the values in the order of the
\* promises passed, whatever the order they settled in
PromiseAll(ts) == [i \in 1..Len(ts) |-> ts[i].out]

Idle == \A i \in 1..Len(tasks) : Settled(tasks[i])

CountRegistered(paramList) ==
    Cardinality({ i \in 1..Len(paramList) : Registered(paramList[i].venue) })

-----------------------------------------------------------------------------
(* CostOracle.analyzeArbitrage and compareVenues *)

RECURSIVE UniqueVenues(_)
\* [...new Set(legs.map(l => l.venue))]: the venues in order of first occurrence
UniqueVenues(legs) ==
    IF legs = << >> THEN << >>
    ELSE LET init == UniqueVenues(SubSeq(legs, 1, Len(legs) - 1))
             v    == legs[Len(legs)].venue
         IN  IF \E i \in 1..Len(init) : init[i] = v THEN init ELSE Append(init, v)

\* a validation that hands only neighbouring venues to canArbitrage
CheckedPairsAdjacent(u) == [i \in 1..(Len(u) - 1) |-> << u[i], u[i + 1] >>]

RECURSIVE PairsFrom(_, _, _)
\* the pairs the two validation loops hand to canArbitrage from (i, j) on, in
\* order, up to the pair on which it fails (the throw ends both loops)
PairsFrom(u, i, j) ==
    IF i > Len(u) THEN << >>
    ELSE IF j > Len(u) THEN PairsFrom(u, i + 1, i + 2)
    ELSE IF ~canArbitrage(u[i], u[j]) THEN << << u[i], u[j] >> >>
    ELSE << << u[i], u[j] >> >> \o PairsFrom(u, i, j + 1)

\* the pairs of venues analyzeArbitrage hands to canArbitrage
CheckedPairs(u) == IF Len(u) >= 2 THEN PairsFrom(u, 1, 2) ELSE << >>

\* a check of neighbouring venues only
IncompatiblePairsAdjacent(u) ==
    { p \in (1..Len(u)) \X (1..Len(u)) : p[2] = p[1] + 1 /\ ~canArbitrage(u[p[1]], u[p[2]]) }

\* the pairs i < j of the validation loops on which canArbitrage fails
IncompatiblePairs(u) ==
    { p \in (1..Len(u)) \X (1..Len(u)) : p[1] < p[2] /\ ~canArbitrage(u[p[1]], u[p[2]]) }

\* the pair the loops reach first (i ascending, then j ascending)
FirstPair(ps) ==
    CHOOSE p \in ps : \A q \in ps : p[1] < q[1] \/ (p[1] = q[1] /\ p[2] <= q[2])

\* the validation of analyzeArbitrage: the error it throws, or NoEstimate
ValidateLegs(legs) ==
    LET u  == UniqueVenues(legs)
        ps == IncompatiblePairs(u)
    IN  IF Len(u) >= 2 /\ ps # { }
        THEN ErrIncompatible(u[FirstPair(ps)[1]], u[FirstPair(ps)[2]])
        ELSE NoEstimate

LegOrderType(leg) == IF leg.order_type = "undefined" THEN "MARKET" ELSE leg.order_type

\* an analysis whose legs all go through this.estimate
StartLegFeeOnly(leg, useFullCost) ==
    StartFee([venue |-> leg.venue, size_usd |-> leg.size_usd,
              order_type |-> LegOrderType(leg), price |-> leg.price,
              market_id |-> leg.market_id])

\* the task analyzeArbitrage starts for a leg
StartLeg(leg, useFullCost) ==
    IF useFullCost
    THEN StartCost([venue |-> leg.venue, size_usd |-> leg.size_usd,
                    order_type |-> LegOrderType(leg), price |-> leg.price,
                    market_id |-> leg.market_id, side |-> leg.direction,
                    mode |-> "undefined"])
    ELSE StartFee([venue |-> leg.venue, size_usd |-> leg.size_usd,
                   order_type |-> LegOrderType(leg), price |-> leg.price,
                   market_id |-> leg.market_id])

\* the total of one leg estimate: total_cost_usd if it has one, else total_fee_usd
LegTotal(est) == IF est.kind = "TradingCost" THEN est.total_cost_usd ELSE est.total_fee_usd

RECURSIVE SumTotals(_)
SumTotals(ests) ==
    IF ests = << >> THEN Zero
    ELSE RAdd(SumTotals(SubSeq(ests, 1, Len(ests) - 1)), LegTotal(ests[Len(ests)]))

RECURSIVE SumSizes(_)
SumSizes(legs) ==
    IF legs = << >> THEN Zero
    ELSE RAdd(SumSizes(SubSeq(legs, 1, Len(legs) - 1)), legs[Len(legs)].size_usd)

\* an analysis that needs the net profit to exceed the threshold
AnalysisStrict(legs, grossProfit, minProfitThresholdPct, legEstimates) ==
    LET totalCosts   == SumTotals(legEstimates)
        netProfit    == RSub(grossProfit, totalCosts)
        totalSize    == SumSizes(legs)
        netProfitPct == IF RGt(totalSize, Zero)
                        THEN RMul(RDiv(netProfit, totalSize), Num(100)) ELSE Zero
    IN  [kind                     |-> "ArbitrageAnalysis",
         legs                     |-> legs,
         gross_profit_usd         |-> grossProfit,
         total_fees_usd           |-> totalCosts,
         net_profit_usd           |-> netProfit,
         net_profit_pct           |-> netProfitPct,
         leg_estimates            |-> legEstimates,
         is_profitable            |-> RGt(netProfitPct, minProfitThresholdPct),
         min_profit_threshold_pct |-> minProfitThresholdPct]

\* the ArbitrageAnalysis built once every leg estimate is in
Analysis(legs, grossProfit, minProfitThresholdPct, legEstimates) ==
    LET totalCosts   == SumTotals(legEstimates)
        netProfit    == RSub(grossProfit, totalCosts)
        totalSize    == SumSizes(legs)
        netProfitPct == IF RGt(totalSize, Zero)
                        THEN RMul(RDiv(netProfit, totalSize), Num(100)) ELSE Zero
    IN  [kind                     |-> "ArbitrageAnalysis",
         legs                     |-> legs,
         gross_profit_usd         |-> grossProfit,
         total_fees_usd           |-> totalCosts,
         net_profit_usd           |-> netProfit,
         net_profit_pct           |-> netProfitPct,
         leg_estimates            |-> legEstimates,
         is_profitable            |-> RGe(netProfitPct, minProfitThresholdPct),
         min_profit_threshold_pct |-> minProfitThresholdPct]

\* Promise.all over the tasks: the first rejection, else the list of values
FirstFailed == CHOOSE i \in 1..Len(tasks) : tasks[i].pc = "failed" /\
                                            \A j \in 1..(i - 1) : tasks[j].pc # "failed"

-----------------------------------------------------------------------------
(* The state machine *)

\* new CostOracle(config)
Init ==
    \E config \in Configs :
        /\ calculators = NewCostOracle(config).calculators
        /\ replayLabsClient = NewCostOracle(config).replayLabsClient
        /\ defaultMode = NewCostOracle(config).defaultMode
        /\ call = [op |-> "none"]
        /\ tasks = << >>
        /\ ret = NoEstimate
        /\ calcCalls = 0
        /\ fetchCalls = 0
        /\ oracleInstance = 0
        /\ oracles = << >>
        /\ firstOracle = 0

\* the caller starts an operation once it has taken the previous one's result
Ready == call.op = "none"

\* the caller takes the result of the operation that is over
TakeResult ==
    /\ call.op # "none"
    /\ ret # Pending
    /\ Idle
    /\ call' = [op |-> "none"]
    /\ tasks' = << >>
    /\ ret' = NoEstimate
    /\ calcCalls' = 0
    /\ fetchCalls' = 0
    /\ UNCHANGED <<calculators, replayLabsClient, defaultMode, singleton>>

\* oracle.setReplayLabsClient(client)
SetReplayLabsClient ==
    /\ replayLabsClient' = "client"
    /\ defaultMode' = "LIVE_ORDERBOOK"
    /\ UNCHANGED <<calculators, call, tasks, ret, calcCalls, fetchCalls, singleton>>

\* oracle.registerCalculator(new HyperliquidFeeCalculator() / new AerodromeFeeCalculator())
RegisterCalculator(venue) ==
    /\ calculators' = IF Registered(venue) THEN calculators ELSE Append(calculators, venue)
    /\ UNCHANGED <<replayLabsClient, defaultMode, call, tasks, ret, calcCalls, fetchCalls, singleton>>

\* canArbitrage(venue1, venue2)
CallCanArbitrage(venue1, venue2) ==
    /\ Ready
    /\ call' = [op |-> "canArbitrage", venue1 |-> venue1, venue2 |-> venue2]
    /\ ret' = [kind |-> "boolean", value |-> canArbitrage(venue1, venue2)]
    /\ tasks' = << >>
    /\ calcCalls' = 0
    /\ fetchCalls' = 0
    /\ UNCHANGED <<calculators, replayLabsClient, defaultMode, singleton>>

\* oracle.estimate(params)
CallEstimate(params) ==
    /\ Ready
    /\ call' = [op |-> "estimate", params |-> params]
    /\ ret' = OracleEstimate(params.venue, params)
    /\ tasks' = << >>
    /\ calcCalls' = IF Registered(params.venue) THEN 1 ELSE 0
    /\ fetchCalls' = 0
    /\ UNCHANGED <<calculators, replayLabsClient, defaultMode, singleton>>

\* oracle.estimateCost(params), up to its first await
CallEstimateCost(params) ==
    /\ Ready
    /\ call' = [op |-> "estimateCost", params |-> params, defaultMode |-> defaultMode]
    /\ ret' = Pending
    /\ tasks' = << StartCost(params) >>
    /\ calcCalls' = IF Registered(params.venue) THEN 1 ELSE 0
    /\ fetchCalls' = 0
    /\ UNCHANGED <<calculators, replayLabsClient, defaultMode, singleton>>

\* oracle.analyzeArbitrage(legs, grossProfit, minProfitThresholdPct, useLiveOrderbook),
\* up to the await of Promise.all
CallAnalyzeArbitrage(legs, grossProfit, threshold, useLiveOrderbook) ==
    LET invalid     == ValidateLegs(legs)
        useLive     == useLiveOrderbook \in {"undefined", "true"}
        useFullCost == useLive /\ replayLabsClient # "null"
    IN  /\ Ready
        /\ call' = [op |-> "analyzeArbitrage", legs |-> legs, grossProfit |-> grossProfit,
                    threshold |-> threshold,
                    checked |-> CheckedPairs(UniqueVenues(legs)),
                    minProfitThresholdPct |-> OrElse(threshold, Frac(1, 2)),
                    useLiveOrderbook |-> useLive,
                    client |-> replayLabsClient]
        /\ IF invalid.kind = "error"
           THEN /\ ret' = invalid
                /\ tasks' = << >>
                /\ calcCalls' = 0
           ELSE /\ ret' = Pending
                /\ tasks' = [i \in 1..Len(legs) |-> StartLeg(legs[i], useFullCost)]
                /\ calcCalls' = CountRegistered(legs)
        /\ fetchCalls' = 0
        /\ UNCHANGED <<calculators, replayLabsClient, defaultMode, singleton>>

\* a comparison that leaves out the venues that are not prediction markets
CompareTasksPredictionOnly(venues, sizeUsd, price, orderType) ==
    [i \in 1..Len(SelectSeq(venues, LAMBDA v : Category(v) = "PREDICTION_MARKET")) |->
        StartFee([venue |-> SelectSeq(venues, LAMBDA v : Category(v) = "PREDICTION_MARKET")[i],
                  size_usd |-> sizeUsd, price |-> price, order_type |-> "MARKET"])]

\* venues.map(venue => this.estimate({venue, size_usd, price, order_type}))
CompareTasks(venues, sizeUsd, price, orderType) ==
    [i \in 1..Len(venues) |->
        StartFee([venue |-> venues[i], size_usd |-> sizeUsd, price |-> price,
                  order_type |-> IF orderType = "undefined" THEN "MARKET" ELSE orderType])]

\* oracle.compareVenues(sizeUsd, options), up to the await of Promise.all
CallCompareVenues(sizeUsd, price, orderType) ==
    /\ Ready
    /\ call' = [op |-> "compareVenues", sizeUsd |-> sizeUsd, price |-> price,
                order_type |-> orderType, venues |-> calculators]
    /\ ret' = Pending
    /\ tasks' = CompareTasks(calculators, sizeUsd, price, orderType)
    /\ calcCalls' = Len(calculators)
    /\ fetchCalls' = 0
    /\ UNCHANGED <<calculators, replayLabsClient, defaultMode, singleton>>

\* estimateCost resumes after `await this.estimate(params)`: it either calls
\* replayLabsClient.getOrderbook and awaits it, or takes the else block
Resume(i) ==
    /\ i \in 1..Len(tasks)
    /\ tasks[i].pc = "estimated"
    /\ IF /\ tasks[i].mode = "LIVE_ORDERBOOK"
          /\ replayLabsClient # "null"
          /\ tasks[i].params.market_id \notin {"undefined", ""}
       THEN /\ tasks' = [tasks EXCEPT ![i].pc = "fetching", ![i].fetch = "pending"]
            /\ fetchCalls' = fetchCalls + 1
       ELSE /\ tasks' = [tasks EXCEPT ![i].pc = "done",
                                      ![i].at = NextCompletion,
                                      ![i].out = CostResult(tasks[i], "nolive", NoSnapshot)]
            /\ fetchCalls' = fetchCalls
    /\ UNCHANGED <<calculators, replayLabsClient, defaultMode, call, ret, calcCalls, singleton>>

\* the orderbook fetch of task i resolves with a normalized snapshot
FetchResolve(i, orderbook) ==
    /\ i \in 1..Len(tasks)
    /\ tasks[i].pc = "fetching"
    /\ orderbook \in OrderbookOutcomes(tasks[i].params.venue)
    /\ tasks' = [tasks EXCEPT ![i].pc = "done",
                              ![i].fetch = "resolved",
                              ![i].at = NextCompletion,
                              ![i].out = CostResult(tasks[i], "live", orderbook)]
    /\ UNCHANGED <<calculators, replayLabsClient, defaultMode, call, ret, calcCalls, fetchCalls, singleton>>

\* the orderbook fetch of task i rejects (network error, API error, venue
\* without orderbook support, malformed payload)
FetchReject(i) ==
    /\ i \in 1..Len(tasks)
    /\ tasks[i].pc = "fetching"
    /\ tasks' = [tasks EXCEPT ![i].pc = "done",
                              ![i].fetch = "rejected",
                              ![i].at = NextCompletion,
                              ![i].out = CostResult(tasks[i], "failed", NoSnapshot)]
    /\ UNCHANGED <<calculators, replayLabsClient, defaultMode, call, ret, calcCalls, fetchCalls, singleton>>

\* the promise of the operation in flight settles
Return ==
    /\ ret = Pending
    /\ \/ \E i \in 1..Len(tasks) : tasks[i].pc = "failed"
       \/ Idle
    /\ ret' = IF \E i \in 1..Len(tasks) : tasks[i].pc = "failed"
              THEN tasks[FirstFailed].out
              ELSE CASE call.op = "estimateCost" -> tasks[1].out
                     [] call.op = "analyzeArbitrage" ->
                            Analysis(call.legs, call.grossProfit, call.minProfitThresholdPct,
                                     PromiseAll(tasks))
                     [] OTHER ->
                            [kind |-> "estimates",
                             estimates |-> PromiseAll(tasks)]
    /\ UNCHANGED <<calculators, replayLabsClient, defaultMode, call, tasks, calcCalls, fetchCalls, singleton>>

Next ==
    \/ SetReplayLabsClient
    \/ \E venue \in {"HYPERLIQUID", "AERODROME"} : RegisterCalculator(venue)
    \/ \E venue1 \in Venues, venue2 \in Venues : CallCanArbitrage(venue1, venue2)
    \/ \E params \in FeeParams : CallEstimate(params)
    \/ \E params \in CostParams : CallEstimateCost(params)
    \/ \E legs \in LegLists, terms \in ProfitTerms,
          useLiveOrderbook \in {"undefined", "false"} :
            CallAnalyzeArbitrage(legs, terms.grossProfit, terms.threshold, useLiveOrderbook)
    \/ \E sizeUsd \in {Num(1000)}, orderType \in {"MARKET", "undefined"} :
            CallCompareVenues(sizeUsd, Frac(1, 2), orderType)
    \/ \E i \in 1..MaxLegs : Resume(i)
    \/ \E i \in 1..MaxLegs, venue \in Venues :
            \E orderbook \in OrderbookOutcomes(venue) : FetchResolve(i, orderbook)
    \/ \E i \in 1..MaxLegs : FetchReject(i)
    \/ Return
    \/ TakeResult

Spec == Init /\ [][Next]_vars

-----------------------------------------------------------------------------

-----------------------------------------------------------------------------
(* The calculators, the normalizer and the cost calculator called directly *)

\* Partial<FeeBreakdown> values handed to createEstimate
Breakdowns ==
    [exchange_fee : {Undefined, Num(5)}, gas_fee : {Undefined, Frac(1, 100)},
     slippage_estimate : {Undefined, Num(2)}, settlement_fee : {Undefined, Num(1)},
     rebate : {Undefined, Num(3), Num(20)}]

\* fee schedules a HyperliquidFeeCalculator is loaded with: the repository's,
\* and one whose first tier starts above zero and whose tiers are not in order
HyperliquidSchedules ==
    { HyperliquidSchedule,
      [volume_tiers |->
          << [tier |-> 1, min_volume_14d_usd |-> Num(5000000),
              maker_fee_bps |-> Num(1), taker_fee_bps |-> Num(4)],
             [tier |-> 2, min_volume_14d_usd |-> Num(50000000),
              maker_fee_bps |-> Zero, taker_fee_bps |-> Num(2)],
             [tier |-> 3, min_volume_14d_usd |-> Num(10000000),
              maker_fee_bps |-> Frac(1, 2), taker_fee_bps |-> Num(3)] >>,
       staking_tiers |-> << >>] }

\* user contexts a HyperliquidFeeCalculator is built with
UserContexts ==
    { NoUserContext,
      [present |-> TRUE, volume_14d_usd |-> Undefined, hype_staked |-> Undefined],
      [present |-> TRUE, volume_14d_usd |-> Num(10000000), hype_staked |-> Undefined],
      [present |-> TRUE, volume_14d_usd |-> Num(0), hype_staked |-> Num(10000)],
      [present |-> TRUE, volume_14d_usd |-> Num(60000000), hype_staked |-> Num(500)],
      [present |-> TRUE, volume_14d_usd |-> Num(500000000), hype_staked |-> Num(1000000)] }

\* raw payloads handed to parseKalshiOrderbook: those of KalshiResponses, and
\* one whose yes bid (0.60) and no bid (0.50) add up to more than 1
KalshiPayloads ==
    KalshiResponses \cup
    { [yes_dollars |-> << <<"0.55", Num(500)>>, <<"0.60", Num(1000)>> >>,
       no_dollars  |-> << <<"0.50", Num(1000)>> >>],
      [yes_dollars |-> << >>,
       no_dollars  |-> << <<"0.40", Num(500)>>, <<"0.60", Num(500)>> >>] }

\* raw payloads handed to parsePolymarketOrderbook: those of
\* PolymarketResponses, and one whose best bid (0.60) is above its best ask (0.55)
PolymarketPayloads ==
    PolymarketResponses \cup
    { [bids |-> << [price |-> "0.60", size |-> "1000"] >>,
       asks |-> << [price |-> "0.55", size |-> "500"] >>],
      [bids |-> << [price |-> "0.38", size |-> "5000"] >>,
       asks |-> << >>] }

\* snapshots handed to calculateSlippage: what the normalizer produces, and
\* one built by a caller with its levels in no particular order
SlippageSnapshots ==
    { parseKalshiOrderbook(r) : r \in KalshiPayloads }
    \cup { parsePolymarketOrderbook(r) : r \in PolymarketPayloads }
    \cup { [Snapshot("POLYMARKET",
                     << [price |-> Frac(50, 100), size |-> Num(500), side |-> "BID"] >>,
                     << [price |-> Frac(55, 100), size |-> Num(1000), side |-> "ASK"] >>)
            EXCEPT !.levels =
                << [price |-> Frac(60, 100), size |-> Num(500), side |-> "ASK"],
                   [price |-> Frac(40, 100), size |-> Num(1000), side |-> "BID"],
                   [price |-> Frac(55, 100), size |-> Num(1000), side |-> "ASK"],
                   [price |-> Frac(50, 100), size |-> Num(500), side |-> "BID"] >>] }

\* leg lists of the analyses made without live data
FeeLegLists == UNION { [1..n -> LegPool] : n \in 0..MaxFeeLegs }

FunctionsInit ==
    /\ calculators = << "KALSHI", "POLYMARKET" >>
    /\ replayLabsClient = "null"
    /\ defaultMode = "PUBLIC_SCHEDULE"
    /\ call = [op |-> "none"]
    /\ tasks = << >>
    /\ ret = NoEstimate
    /\ calcCalls = 0
    /\ fetchCalls = 0
    /\ oracleInstance = 0
    /\ oracles = << >>
    /\ firstOracle = 0

\* the caller is done with the value returned
DropResult ==
    /\ call.op # "none"
    /\ call' = [op |-> "none"]
    /\ ret' = NoEstimate
    /\ UNCHANGED <<calculators, replayLabsClient, defaultMode, tasks, calcCalls, fetchCalls, singleton>>

\* this.createEstimate(params, breakdown, confidence, assumptions) of a calculator
ApplyCreateEstimate(venue, sizeUsd, breakdown) ==
    /\ Ready
    /\ call' = [op |-> "createEstimate", venue |-> venue, size_usd |-> sizeUsd,
                breakdown |-> breakdown]
    /\ ret' = createEstimate(venue, [size_usd |-> sizeUsd], breakdown, "high", << "Fee" >>)
    /\ UNCHANGED <<calculators, replayLabsClient, defaultMode, tasks, calcCalls, fetchCalls, singleton>>

\* calculator.estimate(params) on a calculator of its own
ApplyCalculatorEstimate(params) ==
    /\ Ready
    /\ call' = [op |-> "calculator.estimate", params |-> params]
    /\ ret' = CalculatorEstimate(params.venue, params)
    /\ UNCHANGED <<calculators, replayLabsClient, defaultMode, tasks, calcCalls, fetchCalls, singleton>>

\* new HyperliquidFeeCalculator(userContext).estimate(params)
ApplyHyperliquidEstimate(schedule, userContext, params) ==
    /\ Ready
    /\ call' = [op |-> "hyperliquid.estimate", schedule |-> schedule,
                userContext |-> userContext, params |-> params]
    /\ ret' = HyperliquidEstimateFor(schedule, userContext, params)
    /\ UNCHANGED <<calculators, replayLabsClient, defaultMode, tasks, calcCalls, fetchCalls, singleton>>

\* parseKalshiOrderbook(ticker, response)
ApplyParseKalshiOrderbook(response) ==
    /\ Ready
    /\ call' = [op |-> "parseKalshiOrderbook", response |-> response]
    /\ ret' = parseKalshiOrderbook(response)
    /\ UNCHANGED <<calculators, replayLabsClient, defaultMode, tasks, calcCalls, fetchCalls, singleton>>

\* parsePolymarketOrderbook(tokenId, response)
ApplyParsePolymarketOrderbook(response) ==
    /\ Ready
    /\ call' = [op |-> "parsePolymarketOrderbook", response |-> response]
    /\ ret' = parsePolymarketOrderbook(response)
    /\ UNCHANGED <<calculators, replayLabsClient, defaultMode, tasks, calcCalls, fetchCalls, singleton>>

\* the second of two calls of calculateSlippage on the same snapshot object
SecondSlippageCall(orderbook, sizeUsd, side, first) ==
    /\ call' = [op |-> "calculateSlippage", orderbook |-> orderbook,
                size_usd |-> sizeUsd, side |-> side]
    /\ ret' = [first     |-> first.result,
               second    |-> SlippageCall(first.orderbook, sizeUsd, side).result,
               orderbook |-> SlippageCall(first.orderbook, sizeUsd, side).orderbook]

\* calculateSlippage(orderbook, sizeUsd, side) called twice in a row
ApplyCalculateSlippageTwice(orderbook, sizeUsd, side) ==
    /\ Ready
    /\ SecondSlippageCall(orderbook, sizeUsd, side, SlippageCall(orderbook, sizeUsd, side))
    /\ UNCHANGED <<calculators, replayLabsClient, defaultMode, tasks, calcCalls, fetchCalls, singleton>>

\* what analyzeArbitrage returns when every leg goes through this.estimate:
\* the validation error, else the first rejection, else the analysis
FeeOnlyAnalysis(legs, grossProfit, invalid, legTasks) ==
    IF invalid.kind = "error" THEN invalid
    ELSE IF \E i \in 1..Len(legTasks) : legTasks[i].pc = "failed"
         THEN legTasks[CHOOSE i \in 1..Len(legTasks) :
                           /\ legTasks[i].pc = "failed"
                           /\ \A j \in 1..(i - 1) : legTasks[j].pc # "failed"].out
    ELSE Analysis(legs, grossProfit, Frac(1, 2), PromiseAll(legTasks))

\* oracle.analyzeArbitrage(legs, grossProfit) of an oracle without live data,
\* from the call to the settling of its promise
ApplyAnalyzeArbitrage(legs, grossProfit) ==
    /\ Ready
    /\ call' = [op |-> "analyzeArbitrage", legs |-> legs, grossProfit |-> grossProfit,
                threshold |-> Undefined,
                checked |-> CheckedPairs(UniqueVenues(legs)),
                minProfitThresholdPct |-> Frac(1, 2),
                useLiveOrderbook |-> TRUE,
                client |-> replayLabsClient]
    /\ ret' = FeeOnlyAnalysis(legs, grossProfit, ValidateLegs(legs),
                              [i \in 1..Len(legs) |-> StartLeg(legs[i], FALSE)])
    /\ UNCHANGED <<calculators, replayLabsClient, defaultMode, tasks, calcCalls, fetchCalls, singleton>>

FunctionsNext ==
    \/ \E venue \in Venues, sizeUsd \in {Num(0), Num(1000)}, breakdown \in Breakdowns :
            ApplyCreateEstimate(venue, sizeUsd, breakdown)
    \/ \E params \in FeeParams : ApplyCalculatorEstimate(params)
    \/ \E schedule \in HyperliquidSchedules, userContext \in UserContexts,
          sizeUsd \in {Num(1000), Num(10000)}, orderType \in OrderTypes :
            ApplyHyperliquidEstimate(schedule, userContext,
                                     [venue |-> "HYPERLIQUID", size_usd |-> sizeUsd,
                                      order_type |-> orderType])
    \/ \E response \in KalshiPayloads : ApplyParseKalshiOrderbook(response)
    \/ \E response \in PolymarketPayloads : ApplyParsePolymarketOrderbook(response)
    \/ \E orderbook \in SlippageSnapshots, sizeUsd \in {Num(100), Num(1000), Num(4000)},
          side \in {"BUY", "SELL"} :
            ApplyCalculateSlippageTwice(orderbook, sizeUsd, side)
    \/ \E legs \in FeeLegLists : ApplyAnalyzeArbitrage(legs, Num(40))
    \/ DropResult

FunctionsSpec == FunctionsInit /\ [][FunctionsNext]_vars

-----------------------------------------------------------------------------
(* The module's singleton: getOracle, createOracle, initOracleWithReplayLabs *)

\* the most CostOracle objects constructed in one run
MaxOracles == 3

\* the module as loaded: oracleInstance is null
SingletonInit ==
    /\ calculators = << "KALSHI", "POLYMARKET" >>
    /\ replayLabsClient = "null"
    /\ defaultMode = "PUBLIC_SCHEDULE"
    /\ call = [op |-> "none"]
    /\ tasks = << >>
    /\ ret = NoEstimate
    /\ calcCalls = 0
    /\ fetchCalls = 0
    /\ oracleInstance = 0
    /\ oracles = << >>
    /\ firstOracle = 0

\* a getOracle that builds a new singleton whenever it is handed an API key
getOracleReconfiguring(config) ==
    IF oracleInstance = 0 \/ config.replayLabsApiKey = "key"
    THEN [oracles |-> Append(oracles, NewCostOracle(config)),
          oracleInstance |-> Len(oracles) + 1]
    ELSE [oracles |-> oracles, oracleInstance |-> oracleInstance]

\* getOracle(config): the objects and the singleton after the call (the
\* singleton is what it returns)
getOracle(config) ==
    IF oracleInstance = 0
    THEN [oracles |-> Append(oracles, NewCostOracle(config)),
          oracleInstance |-> Len(oracles) + 1]
    ELSE [oracles |-> oracles, oracleInstance |-> oracleInstance]

\* a call of getOracle(config)
GetOracle(config) ==
    /\ Len(getOracle(config).oracles) <= MaxOracles
    /\ call' = [op |-> "getOracle", config |-> config]
    /\ oracles' = getOracle(config).oracles
    /\ oracleInstance' = getOracle(config).oracleInstance
    /\ ret' = [kind |-> "CostOracle", instance |-> getOracle(config).oracleInstance]
    /\ firstOracle' = IF firstOracle = 0 THEN getOracle(config).oracleInstance
                      ELSE firstOracle
    /\ UNCHANGED <<calculators, replayLabsClient, defaultMode, tasks, calcCalls, fetchCalls>>

\* a call of createOracle(config)
CreateOracle(config) ==
    /\ Len(oracles) < MaxOracles
    /\ call' = [op |-> "createOracle", config |-> config]
    /\ oracles' = Append(oracles, NewCostOracle(config))
    /\ ret' = [kind |-> "CostOracle", instance |-> Len(oracles) + 1]
    /\ UNCHANGED <<calculators, replayLabsClient, defaultMode, tasks, calcCalls, fetchCalls,
                   oracleInstance, firstOracle>>

\* a call of initOracleWithReplayLabs(apiKey)
InitOracleWithReplayLabs(apiKey) ==
    /\ Len(oracles) < MaxOracles
    /\ call' = [op |-> "initOracleWithReplayLabs", apiKey |-> apiKey]
    /\ oracles' = Append(oracles, NewCostOracle([replayLabsApiKey |-> apiKey,
                                                 defaultMode |-> "LIVE_ORDERBOOK"]))
    /\ oracleInstance' = Len(oracles) + 1
    /\ ret' = [kind |-> "CostOracle", instance |-> Len(oracles) + 1]
    /\ UNCHANGED <<calculators, replayLabsClient, defaultMode, tasks, calcCalls, fetchCalls,
                   firstOracle>>

\* setReplayLabsClient(client) on one of the objects constructed
OracleSetReplayLabsClient(id) ==
    /\ id \in 1..Len(oracles)
    /\ call' = [op |-> "setReplayLabsClient", instance |-> id]
    /\ oracles' = [oracles EXCEPT ![id].replayLabsClient = "client",
                                  ![id].defaultMode = "LIVE_ORDERBOOK"]
    /\ ret' = NoEstimate
    /\ UNCHANGED <<calculators, replayLabsClient, defaultMode, tasks, calcCalls, fetchCalls,
                   oracleInstance, firstOracle>>

SingletonNext ==
    \/ \E config \in Configs : GetOracle(config)
    \/ \E config \in Configs : CreateOracle(config)
    \/ \E apiKey \in {"", "key"} : InitOracleWithReplayLabs(apiKey)
    \/ \E id \in 1..MaxOracles : OracleSetReplayLabsClient(id)

SingletonSpec == SingletonInit /\ [][SingletonNext]_vars

-----------------------------------------------------------------------------
(* Properties *)

Contains(seq, x) == \E i \in 1..Len(seq) : seq[i] = x

\* the legs span two asset categories
CrossCategory(legs) ==
    \E i \in 1..Len(legs), j \in 1..Len(legs) :
        Category(legs[i].venue) # Category(legs[j].venue)

\* C1: analyzeArbitrage on legs whose venues span two asset categories rejects
\* with the venue-compatibility error before any cost computation: the call
\* has made no calculator.estimate invocation and no orderbook fetch.
C1_CrossCategoryRejectedBeforeCosts ==
    (call.op = "analyzeArbitrage" /\ CrossCategory(call.legs)) =>
        /\ ret = ValidateLegs(call.legs)
        /\ ret.kind = "error"
        /\ calcCalls = 0
        /\ fetchCalls = 0

\* C2: canArbitrage(v1, v2) is true iff v1 and v2 are two venues of the same
\* asset category; it is false for a prediction market against HYPERLIQUID
\* or AERODROME.
C2_CompatibleIffSameCategory ==
    call.op = "canArbitrage" =>
        ret.value = (call.venue1 # call.venue2 /\
                     Category(call.venue1) = Category(call.venue2))

\* C3: canArbitrage is symmetric and irreflexive: the value returned for
\* (a, b) is the value of canArbitrage(b, a), and it is false for (a, a).
C3_SymmetricIrreflexive ==
    call.op = "canArbitrage" =>
        /\ ret.value = canArbitrage(call.venue2, call.venue1)
        /\ (call.venue1 = call.venue2 => ret.value = FALSE)
        /\ \A a \in Venues, b \in Venues :
              /\ canArbitrage(a, b) = canArbitrage(b, a)
              /\ ~canArbitrage(a, a)

C3_Witness ==
    /\ call.op = "canArbitrage"
    /\ call.venue1 = "POLYMARKET"
    /\ call.venue2 = "KALSHI"
    /\ ret.value = TRUE

\* C4: for a venue with no registered calculator, estimate rejects with
\* 'No calculator registered for venue' and so does estimateCost: its one
\* task fails on the fee estimate, no orderbook is fetched, no heuristic
\* result is built, and the call settles with that error and nothing else.
C4_UnregisteredVenueRejects ==
    /\ (call.op = "estimate" /\ ~Registered(call.params.venue)) =>
            /\ ret.kind = "error"
            /\ ret.message = "No calculator registered for venue"
            /\ ret.venue = call.params.venue
            /\ calcCalls = 0
    /\ (call.op = "estimateCost" /\ ~Registered(call.params.venue)) =>
            /\ tasks[1].pc = "failed"
            /\ tasks[1].out.kind = "error"
            /\ tasks[1].out.message = "No calculator registered for venue"
            /\ ret \in {Pending, tasks[1].out}
            /\ calcCalls = 0
            /\ fetchCalls = 0

C4_Witness ==
    /\ call.op = "estimateCost"
    /\ call.params.venue = "AERODROME"
    /\ call.params.market_id = "MKT"
    /\ replayLabsClient = "client"
    /\ ~Registered("AERODROME")
    /\ ret.kind = "error"
    /\ ret.message = "No calculator registered for venue"

\* C5: when the orderbook fetch of an estimateCost is attempted and fails,
\* the call does not reject: it yields a TradingCost whose spread and slippage
\* are the heuristic estimates, whose confidence is 'low', which has no
\* orderbook_snapshot, and whose assumptions end with the string that says
\* the fetch failed.
C5_FetchFailureFallsBack ==
    \A i \in 1..Len(tasks) :
        tasks[i].fetch = "rejected" =>
            LET t   == tasks[i]
                out == t.out
            IN  /\ t.pc = "done"
                /\ out.kind = "TradingCost"
                /\ out.spread_cost_usd =
                       estimateSpreadCost(t.params.venue, t.params.size_usd, t.price)
                /\ out.slippage_usd =
                       estimateSlippage(t.params.venue, t.params.size_usd, t.price)
                /\ out.confidence = "low"
                /\ out.orderbook_snapshot = NoSnapshot
                /\ out.assumptions =
                       Append(t.est.assumptions, "Orderbook fetch failed, using estimates")
                /\ call.op = "estimateCost" => ret \in {Pending, out}

C5_Witness ==
    /\ call.op = "estimateCost"
    /\ Len(tasks) = 1
    /\ tasks[1].fetch = "rejected"
    /\ ret.kind = "TradingCost"
    /\ ret.confidence = "low"

\* C6: an estimateCost that estimates spread and slippage heuristically
\* because live data is unavailable (no fetch is attempted) returns a
\* TradingCost of confidence 'low' whose assumptions end with a string that
\* explains the fallback.
C6_NoLiveDataLowConfidence ==
    (call.op = "estimateCost" /\ ret.kind = "TradingCost" /\ tasks[1].fetch = "none") =>
        /\ ret.confidence = "low"
        /\ Contains(ret.assumptions, "Spread/slippage estimated (no live orderbook)")

\* 0 < P < 1 for a price that is given
InsideUnit(P) == P # Undefined /\ RGt(P, Zero) /\ RLt(P, One)

\* an estimate call on the Kalshi calculator that returned a FeeEstimate
KalshiEstimateReturned ==
    /\ call.op = "estimate"
    /\ call.params.venue = "KALSHI"
    /\ ret.kind = "FeeEstimate"

\* C7: for a fixed size_usd and order type the Kalshi exchange fee at price P
\* in (0,1) equals the exchange fee at price 1-P.
C7_KalshiFeeSymmetric ==
    (KalshiEstimateReturned /\ InsideUnit(call.params.price)) =>
        ret.breakdown.exchange_fee =
            KalshiEstimate([call.params EXCEPT !.price = RSub(One, @)]).breakdown.exchange_fee

\* C8: for a fixed size_usd and a MARKET order the Kalshi fee is maximal at
\* P = 0.5: total_fee_usd at 0.5 is at least total_fee_usd at every price,
\* and strictly greater than the fee at P = 0.10.
C8_KalshiFeeMaxAtHalf ==
    (KalshiEstimateReturned /\ call.params.order_type = "MARKET") =>
        LET atHalf == KalshiEstimate([call.params EXCEPT !.price = Frac(1, 2)]).total_fee_usd
        IN  /\ RGe(atHalf, ret.total_fee_usd)
            /\ (call.params.price = Frac(1, 10) /\ RGt(call.params.size_usd, Zero)) =>
                    RGt(atHalf, ret.total_fee_usd)

C10_OmittedOrderTypeIsMarket ==
    (call.op = "estimate" /\ ret.kind = "FeeEstimate"
                          /\ call.params.order_type = "undefined") =>
        ret.total_fee_usd =
            CalculatorEstimate(call.params.venue,
                               [call.params EXCEPT !.order_type = "MARKET"]).total_fee_usd

\* an estimate call on the Polymarket calculator that returned a FeeEstimate
PolymarketEstimateReturned ==
    /\ call.op = "estimate"
    /\ call.params.venue = "POLYMARKET"
    /\ ret.kind = "FeeEstimate"

Component(x) == IF x = Undefined THEN Zero ELSE x

\* C12: every FeeEstimate a calculator builds has total_fee_usd = exchange_fee
\* + gas_fee + settlement_fee + slippage_estimate - rebate, absent components
\* counted as 0, and the total is not clamped: it is negative when the rebate
\* exceeds the other components.
C12_TotalIsSumMinusRebate ==
    (call.op \in {"createEstimate", "calculator.estimate"} /\ ret.kind = "FeeEstimate") =>
        LET b     == ret.breakdown
            gross == RAdd(RAdd(RAdd(Component(b.exchange_fee), Component(b.gas_fee)),
                               Component(b.settlement_fee)),
                          Component(b.slippage_estimate))
        IN  /\ ret.total_fee_usd = RSub(gross, Component(b.rebate))
            /\ RLt(gross, Component(b.rebate)) => RLt(ret.total_fee_usd, Zero)
            /\ call.op = "createEstimate" =>
                   /\ b.exchange_fee = Component(call.breakdown.exchange_fee)
                   /\ Component(b.gas_fee) = Component(call.breakdown.gas_fee)
                   /\ Component(b.settlement_fee) = Component(call.breakdown.settlement_fee)
                   /\ Component(b.slippage_estimate) =
                          Component(call.breakdown.slippage_estimate)
                   /\ Component(b.rebate) = Component(call.breakdown.rebate)

C12_Witness ==
    /\ call.op = "createEstimate"
    /\ call.breakdown.exchange_fee = Num(5)
    /\ call.breakdown.rebate = Num(20)
    /\ call.breakdown.settlement_fee = Num(1)
    /\ RLt(ret.total_fee_usd, Zero)

\* C13: a FeeEstimate has fee_pct = total_fee_usd / size_usd x 100 when
\* size_usd > 0 and fee_pct = 0 when size_usd = 0; the TradingCost of
\* estimateCost has total_cost_pct = total_cost_usd / size_usd x 100, or 0
\* when size_usd = 0.
C13_PercentOfSize ==
    /\ (call.op = "estimate" /\ ret.kind = "FeeEstimate") =>
            /\ RGt(ret.size_usd, Zero) =>
                   ret.fee_pct = RMul(RDiv(ret.total_fee_usd, ret.size_usd), Num(100))
            /\ ret.size_usd = Zero => ret.fee_pct = Zero
            /\ ret.size_usd = call.params.size_usd
    /\ (call.op = "estimateCost" /\ ret.kind = "TradingCost") =>
            /\ RGt(ret.size_usd, Zero) =>
                   ret.total_cost_pct = RMul(RDiv(ret.total_cost_usd, ret.size_usd), Num(100))
            /\ ret.size_usd = Zero => ret.total_cost_pct = Zero
            /\ ret.size_usd = call.params.size_usd

C13_Witness ==
    /\ call.op = "estimateCost"
    /\ ret.kind = "TradingCost"
    /\ ret.size_usd = Zero
    /\ ret.total_cost_pct = Zero
    /\ ret.total_cost_usd # Zero

\* the mode disclaimer entries of an assumptions list
ModeDisclaimers ==
    { "PUBLIC_SCHEDULE: Based on documented fees, not account-specific",
      "ACCOUNT_SPECIFIC: Using provided/authenticated rates" }

\* C14: every FeeEstimate a calculator's estimate returns has a non-empty
\* assumptions list that includes a mode disclaimer entry, and carries a
\* mode field.
C14_ModeDisclosed ==
    (call.op = "estimate" /\ ret.kind = "FeeEstimate") =>
        /\ Len(ret.assumptions) > 0
        /\ \E i \in 1..Len(ret.assumptions) : ret.assumptions[i] \in ModeDisclaimers
        /\ "mode" \in DOMAIN ret

\* C15: for a request with size_usd <= 0 on a registered venue, estimate
\* returns a zero-valued estimate: total_fee_usd = 0 and fee_pct = 0.
C15_NonPositiveSizeIsFree ==
    (call.op = "estimate" /\ ret.kind # "error" /\ RLe(call.params.size_usd, Zero)) =>
        /\ ret.kind = "FeeEstimate"
        /\ ret.total_fee_usd = Zero
        /\ ret.fee_pct = Zero

\* C16: an estimateCost that takes the heuristic path on a price <= 0 or >= 1
\* returns finite spread cost, slippage and total_cost_usd, and its implicit
\* costs are zero.
C16_DegeneratePriceIsFinite ==
    (/\ call.op = "estimateCost"
     /\ ret.kind = "TradingCost"
     /\ tasks[1].fetch # "resolved"
     /\ call.params.price # Undefined
     /\ (RLe(call.params.price, Zero) \/ RGe(call.params.price, One))) =>
        /\ IsFinite(ret.spread_cost_usd)
        /\ IsFinite(ret.slippage_usd)
        /\ IsFinite(ret.total_cost_usd)
        /\ ret.implicit_cost_usd = Zero

\* the greatest index of a non-empty set of indices
Greatest(S) == CHOOSE i \in S : \A j \in S : j <= i

SidePrices(levels, side) ==
    LET picked == SelectSeq(levels, LAMBDA l : l.side = side)
    IN  [i \in 1..Len(picked) |-> picked[i].price]

\* C18: every snapshot the normalizer produces has its BID levels in
\* descending and its ASK levels in ascending price order, best_bid and
\* best_ask equal to the first level of each side (0 and 1 for an empty side),
\* and, when both sides are non-empty, best_bid <= mid_price <= best_ask.
C18_SnapshotOrdered ==
    call.op \in {"parseKalshiOrderbook", "parsePolymarketOrderbook"} =>
        LET bids == SidePrices(ret.levels, "BID")
            asks == SidePrices(ret.levels, "ASK")
        IN  /\ \A i \in 1..Len(bids), j \in 1..Len(bids) : i < j => RGe(bids[i], bids[j])
            /\ \A i \in 1..Len(asks), j \in 1..Len(asks) : i < j => RLe(asks[i], asks[j])
            /\ ret.best_bid = IF Len(bids) > 0 THEN bids[1] ELSE Zero
            /\ ret.best_ask = IF Len(asks) > 0 THEN asks[1] ELSE One
            /\ (Len(bids) > 0 /\ Len(asks) > 0) =>
                   RLe(ret.best_bid, ret.mid_price) /\ RLe(ret.mid_price, ret.best_ask)

\* C19: on a static snapshot two calls of calculateSlippage with the same
\* orderbook, size and side return identical results, and the snapshot (the
\* order and the content of its levels included) is left as it was.
C19_SlippageIsPure ==
    call.op = "calculateSlippage" =>
        /\ ret.first = ret.second
        /\ ret.orderbook = call.orderbook

C19_Witness ==
    /\ call.op = "calculateSlippage"
    /\ call.side = "BUY"
    /\ Len(call.orderbook.levels) = 4
    /\ call.orderbook.levels[1].side = "ASK"
    /\ call.orderbook.levels[2].side = "BID"
    /\ ret.first.levels_consumed = 2
    /\ ret.second.levels_consumed = 2
    /\ ret.orderbook.levels[1].price = Frac(60, 100)

\* C20: analyzeArbitrage returns total_fees_usd = the sum of the per-leg
\* totals, net_profit_usd = grossProfit - total_fees_usd, net_profit_pct =
\* net_profit_usd / (sum of leg sizes) x 100 (0 when that sum is not
\* positive), and is_profitable exactly when net_profit_pct >= the threshold
\* (equality counts), the threshold being 0.5 when the caller gives none.
C20_ArbitrageTotals ==
    (call.op = "analyzeArbitrage" /\ ret.kind = "ArbitrageAnalysis") =>
        LET sizes     == SumSizes(call.legs)
            threshold == IF call.threshold = Undefined THEN Frac(1, 2) ELSE call.threshold
        IN  /\ Len(ret.leg_estimates) = Len(call.legs)
            /\ \A i \in 1..Len(call.legs) : ret.leg_estimates[i] = tasks[i].out
            /\ ret.total_fees_usd = SumTotals([i \in 1..Len(tasks) |-> tasks[i].out])
            /\ ret.net_profit_usd = RSub(call.grossProfit, ret.total_fees_usd)
            /\ ret.net_profit_pct =
                   IF RGt(sizes, Zero)
                   THEN RMul(RDiv(ret.net_profit_usd, sizes), Num(100)) ELSE Zero
            /\ ret.min_profit_threshold_pct = threshold
            /\ ret.is_profitable <=>
                   (RGt(ret.net_profit_pct, threshold) \/ ret.net_profit_pct = threshold)

C20_Witness ==
    /\ call.op = "analyzeArbitrage"
    /\ ret.kind = "ArbitrageAnalysis"
    /\ call.threshold = Undefined
    /\ Len(call.legs) > 0
    /\ ret.net_profit_pct = Frac(1, 2)
    /\ ret.is_profitable

\* the venues named by a leg list
LegVenues(legs) == { legs[i].venue : i \in 1..Len(legs) }

\* the error the validation of analyzeArbitrage throws
IsIncompatibleError(r) ==
    r.kind = "error" /\ r.message = "Cross-venue arbitrage requires different venues"

\* C21: analyzeArbitrage never raises the compatibility error for an empty leg
\* list or for legs that all name one venue, and its compatibility check is
\* made on every pair of distinct venues among the legs, not only on the
\* venues of adjacent legs.
C21_ValidationIsPairwise ==
    call.op = "analyzeArbitrage" =>
        /\ Cardinality(LegVenues(call.legs)) <= 1 =>
               (~IsIncompatibleError(ret) /\ call.checked = << >>)
        /\ ~IsIncompatibleError(ret) =>
               { { call.checked[k][1], call.checked[k][2] } : k \in 1..Len(call.checked) }
                   = { { p[1], p[2] } :
                         p \in { q \in LegVenues(call.legs) \X LegVenues(call.legs) :
                                     q[1] # q[2] } }

C21_Witness ==
    /\ call.op = "analyzeArbitrage"
    /\ Len(call.legs) = 3
    /\ Cardinality(LegVenues(call.legs)) = 3
    /\ Len(call.checked) = 3
    /\ ~IsIncompatibleError(ret)

\* the estimate of leg i of the analysis in flight, from the leg itself and
\* from what its own orderbook fetch did
LegEstimate(i) ==
    IF tasks[i].kind = "fee" THEN StartLeg(call.legs[i], FALSE).out
    ELSE CostResult(StartLeg(call.legs[i], TRUE),
                    CASE tasks[i].fetch = "resolved" -> "live"
                      [] tasks[i].fetch = "rejected" -> "failed"
                      [] OTHER -> "nolive",
                    tasks[i].out.orderbook_snapshot)

\* C22: whatever the order in which the legs' orderbook fetches and estimates
\* complete, leg_estimates has the length and the order of legs,
\* leg_estimates[i] being the estimate of legs[i], and total_fees_usd,
\* net_profit_usd and is_profitable are those of these estimates.
C22_CompletionOrderIrrelevant ==
    (call.op = "analyzeArbitrage" /\ ret.kind = "ArbitrageAnalysis" /\ Len(tasks) = Len(call.legs)) =>
        LET expected == [i \in 1..Len(call.legs) |-> LegEstimate(i)]
            total    == SumTotals(expected)
            net      == RSub(call.grossProfit, total)
            sizes    == SumSizes(call.legs)
            pct      == IF RGt(sizes, Zero) THEN RMul(RDiv(net, sizes), Num(100)) ELSE Zero
        IN  /\ ret.leg_estimates = expected
            /\ \A i \in 1..Len(call.legs) : ret.leg_estimates[i].venue = call.legs[i].venue
            /\ ret.total_fees_usd = total
            /\ ret.net_profit_usd = net
            /\ ret.is_profitable = RGe(pct, call.minProfitThresholdPct)

C22_Witness ==
    /\ call.op = "analyzeArbitrage"
    /\ ret.kind = "ArbitrageAnalysis"
    /\ Len(tasks) = 2
    /\ tasks[2].at = 1
    /\ tasks[1].at = 2
    /\ tasks[1].fetch = "resolved"
    /\ call.legs[1].venue # call.legs[2].venue
    /\ ret.leg_estimates[1].venue = call.legs[1].venue

\* C23: compareVenues returns exactly one estimate per venue registered when
\* it is called (none missing, none twice), each with size_usd equal to the
\* size given and venue equal to the venue it was computed for.
C23_OneEstimatePerVenue ==
    (call.op = "compareVenues" /\ ret.kind = "estimates") =>
        /\ Len(ret.estimates) = Len(call.venues)
        /\ \A i \in 1..Len(call.venues) :
               /\ ret.estimates[i].kind = "FeeEstimate"
               /\ ret.estimates[i].venue = call.venues[i]
               /\ ret.estimates[i].size_usd = call.sizeUsd
        /\ \A i \in 1..Len(ret.estimates), j \in 1..Len(ret.estimates) :
               i # j => ret.estimates[i].venue # ret.estimates[j].venue

C23_Witness ==
    /\ call.op = "compareVenues"
    /\ ret.kind = "estimates"
    /\ Len(call.venues) = 4
    /\ Len(ret.estimates) = 4
    /\ ret.estimates[4].size_usd = Num(1000)

\* C24: an oracle newly constructed by createOracle or getOracle has a
\* calculator registered for each of KALSHI, POLYMARKET, HYPERLIQUID and
\* AERODROME.
C24_FourVenuesRegistered ==
    (call.op \in {"createOracle", "getOracle"} /\ ret.kind = "CostOracle") =>
        \A venue \in Venues : Contains(oracles[ret.instance].calculators, venue)

\* C25: after any sequence of calls of getOracle, createOracle and
\* initOracleWithReplayLabs, every getOracle call returns the instance the
\* first getOracle call returned.
C25_GetOracleAlwaysTheFirst ==
    (call.op = "getOracle" /\ ret.kind = "CostOracle") => ret.instance = firstOracle

\* C28: on every oracle instance a configured live-data client implies
\* defaultMode = LIVE_ORDERBOOK: the constructor with an API key and
\* setReplayLabsClient set the mode together with the client, overriding a
\* configured defaultMode, and nothing resets the mode afterwards.
C28_ClientImpliesLiveMode ==
    \A id \in 1..Len(oracles) :
        oracles[id].replayLabsClient # "null" => oracles[id].defaultMode = "LIVE_ORDERBOOK"

C28_Witness ==
    /\ call.op = "createOracle"
    /\ call.config.replayLabsApiKey = "key"
    /\ call.config.defaultMode = "ACCOUNT_SPECIFIC"
    /\ oracles[ret.instance].replayLabsClient = "client"
    /\ oracles[ret.instance].defaultMode = "LIVE_ORDERBOOK"
    /\ \E id \in 1..Len(oracles) :
           /\ id # ret.instance
           /\ oracles[id].replayLabsClient = "client"

\* C30: while a singleton exists getOracle constructs nothing: getOracle(config)
\* returns the existing instance and leaves it as it was, whatever the config
\* (no client attached, defaultMode unchanged); and createOracle never changes
\* the instance getOracle returns.
C30_GetOracleKeepsSingleton ==
    [][/\ (call'.op = "getOracle" /\ oracleInstance # 0) =>
              /\ oracles' = oracles
              /\ oracleInstance' = oracleInstance
              /\ ret'.instance = oracleInstance
       /\ call'.op = "createOracle" =>
              /\ oracleInstance' = oracleInstance
              /\ \A id \in 1..Len(oracles) : oracles'[id] = oracles[id]
              /\ ret'.instance # oracleInstance]_vars

C30_Witness ==
    /\ call.op = "getOracle"
    /\ call.config.replayLabsApiKey = "key"
    /\ call.config.defaultMode = "ACCOUNT_SPECIFIC"
    /\ ret.instance = oracleInstance
    /\ oracles[oracleInstance].replayLabsClient = "null"
    /\ oracles[oracleInstance].defaultMode = "PUBLIC_SCHEDULE"
    /\ Len(oracles) = 2

RECURSIVE DepthTo(_, _)
\* the notional (price x size) of the first k levels
DepthTo(levels, k) ==
    IF k = 0 THEN Zero
    ELSE RAdd(DepthTo(levels, k - 1), RMul(levels[k].price, levels[k].size))

\* the notional of an order of sizeUsd filled by the first k levels
FilledTo(levels, sizeUsd, k) == RMin(sizeUsd, DepthTo(levels, k))

RECURSIVE ContractsTo(_, _, _)
\* the contracts bought or sold on the first k levels
ContractsTo(levels, sizeUsd, k) ==
    IF k = 0 THEN Zero
    ELSE RAdd(ContractsTo(levels, sizeUsd, k - 1),
              RDiv(RSub(FilledTo(levels, sizeUsd, k), FilledTo(levels, sizeUsd, k - 1)),
                   levels[k].price))

\* C26: calculateSlippage walks the ASK levels in ascending price order for a
\* BUY and the BID levels in descending order for a SELL, filling
\* min(remaining notional, price x size) at each level until the notional is
\* filled; what an exhausted book leaves is filled at the last level's price.
\* effective_price is the size-weighted average fill price, slippage_usd is
\* |effective_price - best price| x contracts filled, levels_consumed is at
\* most the number of levels of that side, and a side without levels gives
\* zero costs and levels_consumed = 0.
C26_SlippageWalksTheBook ==
    call.op = "calculateSlippage" =>
        LET levels    == IF call.side = "BUY"
                         THEN SortBy(FilterSide(call.orderbook.levels, "ASK"), "ascending")
                         ELSE SortBy(FilterSide(call.orderbook.levels, "BID"), "descending")
            n         == Len(levels)
            sizeUsd   == call.size_usd
            leftOver  == RSub(sizeUsd, FilledTo(levels, sizeUsd, n))
            contracts == RAdd(ContractsTo(levels, sizeUsd, n),
                              RDiv(leftOver, levels[n].price))
            paid      == RAdd(FilledTo(levels, sizeUsd, n), leftOver)
            reached   == { k \in 1..n : RLt(DepthTo(levels, k - 1), sizeUsd) }
        IN  IF n = 0
            THEN /\ ret.first.levels_consumed = 0
                 /\ ret.first.slippage_usd = Zero
                 /\ ret.first.spread_cost_usd = Zero
                 /\ ret.first.price_impact_pct = Zero
            ELSE /\ ret.first.levels_consumed = Cardinality(reached)
                 /\ ret.first.levels_consumed <= n
                 /\ ret.first.effective_price = RDiv(paid, contracts)
                 /\ ret.first.slippage_usd =
                        RMul(RAbs(RSub(ret.first.effective_price, levels[1].price)), contracts)

C26_Witness ==
    /\ call.op = "calculateSlippage"
    /\ call.side = "BUY"
    /\ call.size_usd = Num(4000)
    /\ Len(call.orderbook.levels) = 4
    /\ ret.first.levels_consumed = 2
    /\ RGt(ret.first.slippage_usd, Zero)
    /\ RGt(ret.first.effective_price, Frac(55, 100))

RECURSIVE TotalsTo(_, _)
\* total_cost_usd of the full-cost and total_fee_usd of the fee-only estimates
\* among the first k, added up
TotalsTo(ests, k) ==
    IF k = 0 THEN Zero
    ELSE RAdd(TotalsTo(ests, k - 1),
              IF ests[k].kind = "TradingCost" THEN ests[k].total_cost_usd
              ELSE ests[k].total_fee_usd)

\* C27: the leg estimates of an ArbitrageAnalysis are full-cost TradingCosts
\* when a live-data client is configured and useLiveOrderbook is true, and
\* fee-only FeeEstimates otherwise; the total adds total_cost_usd of the
\* former and total_fee_usd of the latter; a leg whose orderbook fetch failed
\* does not fail the analysis and its estimate has confidence 'low'.
C27_LegEstimateKinds ==
    call.op = "analyzeArbitrage" =>
        /\ ret.kind = "ArbitrageAnalysis" =>
               /\ \A i \in 1..Len(ret.leg_estimates) :
                      /\ ret.leg_estimates[i].kind =
                             IF call.client # "null" /\ call.useLiveOrderbook
                             THEN "TradingCost" ELSE "FeeEstimate"
                      /\ tasks[i].fetch = "rejected" =>
                             ret.leg_estimates[i].confidence = "low"
               /\ ret.total_fees_usd = TotalsTo(ret.leg_estimates, Len(ret.leg_estimates))
        /\ (ret.kind = "error" /\ ~IsIncompatibleError(ret)) =>
               /\ ret.message = "No calculator registered for venue"
               /\ \E i \in 1..Len(tasks) : tasks[i].pc = "failed" /\ tasks[i].fetch = "none"
        /\ \A i \in 1..Len(tasks) :
               tasks[i].fetch = "rejected" =>
                   /\ tasks[i].pc = "done"
                   /\ tasks[i].out.kind = "TradingCost"
                   /\ tasks[i].out.confidence = "low"

C27_Witness ==
    /\ call.op = "analyzeArbitrage"
    /\ ret.kind = "ArbitrageAnalysis"
    /\ Len(tasks) = 2
    /\ tasks[1].fetch = "rejected"
    /\ tasks[2].fetch = "resolved"
    /\ ret.leg_estimates[1].kind = "TradingCost"
    /\ ret.leg_estimates[1].confidence = "low"
    /\ ret.leg_estimates[2].confidence = "high"

\* C29: one estimateCost call issues the orderbook fetch at most once, and
\* only when the effective mode (params.mode, else the default mode) is
\* LIVE_ORDERBOOK, a client is configured and market_id is supplied; the fee
\* calculator is consulted before the fetch, so a request for a venue without
\* calculator fails with no fetch issued; and the result has an
\* orderbook_snapshot exactly when its confidence is 'high'.
C29_FetchOnlyWhenLive ==
    call.op = "estimateCost" =>
        /\ fetchCalls <= 1
        /\ fetchCalls = 1 =>
               /\ (IF call.params.mode = "undefined" THEN call.defaultMode
                   ELSE call.params.mode) = "LIVE_ORDERBOOK"
               /\ replayLabsClient # "null"
               /\ call.params.market_id \notin {"undefined", ""}
               /\ calcCalls = 1
        /\ calcCalls = 0 => (fetchCalls = 0 /\ ret.kind \in {"pending", "error"})
        /\ ret.kind = "error" => fetchCalls = 0
        /\ ret.kind = "TradingCost" =>
               (ret.orderbook_snapshot # NoSnapshot <=> ret.confidence = "high")

C29_Witness ==
    /\ call.op = "estimateCost"
    /\ call.params.mode = "undefined"
    /\ call.defaultMode = "LIVE_ORDERBOOK"
    /\ fetchCalls = 1
    /\ calcCalls = 1
    /\ ret.kind = "TradingCost"
    /\ ret.confidence = "high"
    /\ ret.orderbook_snapshot # NoSnapshot

====
